---- MODULE Spec2Model ----
(***************************************************************************)
(* photutils segmentation: SegmentProperties, segment_properties and       *)
(* properties_table (src/photutils/segmentation.py); photutils PSF models: *)
(* Discrete2DModel, DiscretePRF, prepare_psf_model, get_grouped_psf_model  *)
(* (src/photutils/psf/models.py).                                          *)
(*                                                                         *)
(* Floating-point values are modelled as exact rationals <<n, d>> with     *)
(* d >= 0; d = 0 stands for a non-finite value (nan or inf), which every   *)
(* arithmetic operation propagates, as IEEE arithmetic does.  Rounding is  *)
(* not modelled.  Arrays are records [ny, nx, v] indexed from 0, row first.*)
(***************************************************************************)
EXTENDS Integers, Sequences, FiniteSets, TLC

VARIABLES
    data,           \* caller's image array
    segment_image,  \* caller's label map
    error,          \* caller's error array, or NoArr for None
    gain,           \* caller's gain: [kind, s, a]
    mask,           \* caller's boolean mask, or NoArr for None
    mask_method,    \* caller's mask_method string
    background,     \* caller's background: [kind, s, a]
    label,          \* label passed to SegmentProperties(...)
    label_slice,    \* label_slice passed to SegmentProperties(...): [given, y0, y1, x0, x1]
    labels,         \* labels passed to segment_properties: [given, ids]
    columns,        \* columns passed to properties_table: [given, names]
    objs,           \* the SegmentProperties objects that exist, in order of construction
    cache,          \* per object: the lazyproperty values read so far
    exc,            \* exception raised by the last call: [type, msg]
    trace,          \* the internal steps the last call went through
    table,          \* the Table returned by properties_table: [made, colnames, cols]
    pc,             \* the caller's position
    args,           \* arguments of the caller's call into psf/models.py
    model,          \* the PSF model object the caller holds
    result          \* value returned by the caller's last call on the model

vars == <<data, segment_image, error, gain, mask, mask_method, background, label,
          label_slice, labels, columns, objs, cache, exc, trace, table, pc,
          args, model, result>>

\* the state of a caller of psf/models.py
psfvars == <<args, model, result>>

inputs == <<data, segment_image, error, gain, mask, mask_method, background, label,
            label_slice, labels, columns>>

-----------------------------------------------------------------------------
(* Bounds of the model *)

\* pixel values of the generated images are 0..MaxVal
MaxVal == 2
\* labels of the generated label maps are 0..MaxLabel
MaxLabel == 1

\* shapes (ny, nx) of the generated images
Shapes == {<<1, 3>>, <<2, 2>>}

-----------------------------------------------------------------------------
(* Rationals: float64 values without rounding *)

Abs(x) == IF x < 0 THEN -x ELSE x

RECURSIVE Gcd(_, _)
Gcd(a, b) == IF b = 0 THEN a ELSE Gcd(b, a % b)

RNorm(n, d) ==
    IF d = 0 THEN <<0, 0>>
    ELSE LET s == IF d < 0 THEN -1 ELSE 1
             g == Gcd(Abs(n), Abs(d))
         IN <<(s * n) \div g, (s * d) \div g>>

R(n) == <<n, 1>>
NaN == <<0, 0>>
IsFinite(a) == a[2] # 0
\* sums and products are reduced before they are multiplied out
RAdd(a, b) ==
    IF a[2] = 0 \/ b[2] = 0 THEN NaN
    ELSE LET g == Gcd(a[2], b[2])
         IN RNorm(a[1] * (b[2] \div g) + b[1] * (a[2] \div g), (a[2] \div g) * b[2])
RNeg(a) == <<-a[1], a[2]>>
RSub(a, b) == RAdd(a, RNeg(b))
RMul(a, b) ==
    IF a[2] = 0 \/ b[2] = 0 THEN NaN
    ELSE LET g1 == Gcd(Abs(a[1]), b[2])
             g2 == Gcd(Abs(b[1]), a[2])
         IN RNorm((a[1] \div g1) * (b[1] \div g2), (a[2] \div g2) * (b[2] \div g1))
\* x / 0 is inf or nan: not finite
RDiv(a, b) ==
    IF b[1] = 0 THEN NaN
    ELSE RMul(a, IF b[1] < 0 THEN <<-b[2], -b[1]>> ELSE <<b[2], b[1]>>)
\* sign of a finite rational
RSign(a) == IF a[1] > 0 THEN 1 ELSE IF a[1] < 0 THEN -1 ELSE 0
\* a < b, a <= b for floats: FALSE whenever either side is not finite
RLt(a, b) == IsFinite(a) /\ IsFinite(b) /\ a[1] * b[2] < b[1] * a[2]
RLe(a, b) == IsFinite(a) /\ IsFinite(b) /\ a[1] * b[2] <= b[1] * a[2]

RECURSIVE RPow(_, _)
\* C pow(): pow(x, 0) is 1 for every x, nan included
RPow(a, k) == IF k = 0 THEN R(1) ELSE RMul(a, RPow(a, k - 1))

-----------------------------------------------------------------------------
(* numpy arrays *)

Idx(ny, nx) == (0 .. ny - 1) \X (0 .. nx - 1)
Arr(ny, nx, f) == [ny |-> ny, nx |-> nx, v |-> f]
\* None, where an array is optional
NoArr == Arr(0, 0, [ix \in {} |-> 0])
IsNone(a) == a.ny = 0
Shape(a) == <<a.ny, a.nx>>
Indices(a) == Idx(a.ny, a.nx)

\* indices in row-major (C) order, the order of ndarray.nonzero()
RowMajor(ny, nx) == [k \in 1 .. ny * nx |-> <<(k - 1) \div nx, (k - 1) % nx>>]

RECURSIVE SumSeq(_)
\* np.sum over a sequence of floats, left to right
SumSeq(s) == IF s = <<>> THEN R(0) ELSE RAdd(SumSeq(SubSeq(s, 1, Len(s) - 1)), s[Len(s)])

\* the elements of array a at the indices where keep holds, in row-major order
Selected(a, keep(_)) ==
    LET all == RowMajor(a.ny, a.nx)
        F[k \in 0 .. Len(all)] ==
            IF k = 0 THEN <<>>
            ELSE IF keep(all[k]) THEN Append(F[k - 1], a.v[all[k]]) ELSE F[k - 1]
    IN F[Len(all)]

\* np.mean: the sum divided by the count; of nothing it is nan
Mean(s) == RDiv(SumSeq(s), R(Len(s)))

\* a[y0:y1, x0:x1]
Cut(a, sl) ==
    Arr(sl.y1 - sl.y0, sl.x1 - sl.x0,
        [ix \in Idx(sl.y1 - sl.y0, sl.x1 - sl.x0) |-> a.v[<<ix[1] + sl.y0, ix[2] + sl.x0>>]])

Slice(y0, y1, x0, x1) == [y0 |-> y0, y1 |-> y1, x0 |-> x0, x1 |-> x1]
NoSlice == Slice(0, 0, 0, 0)

Max2(a, b) == IF a > b THEN a ELSE b
Min2(a, b) == IF a < b THEN a ELSE b

-----------------------------------------------------------------------------
(* Exceptions *)

NoExc == [type |-> "none", msg |-> ""]
ValueError(m) == [type |-> "ValueError", msg |-> m]
IndexError(m) == [type |-> "IndexError", msg |-> m]
Raised(e) == e.type # "none"

\* optional scalar-or-array arguments (gain, background)
NoneArg == [kind |-> "none", s |-> R(0), a |-> NoArr]
ScalarArg(x) == [kind |-> "scalar", s |-> x, a |-> NoArr]
ArrayArg(a) == [kind |-> "array", s |-> R(0), a |-> a]

\* a reference held by an object: None, the caller's own array, or a new array
NoRef == [kind |-> "none", own |-> NoArr]
InputRef == [kind |-> "input", own |-> NoArr]
OwnRef(a) == [kind |-> "own", own |-> a]

-----------------------------------------------------------------------------
(* _subtract_background, _apply_gain, _apply_mask, _prepare_data *)

\* Returns the background-subtracted data (a new array) and the 2D background
\* image: a new array for a scalar background, the caller's array itself for a
\* 2D background.
_subtract_background(d, bg) ==
    IF bg.kind = "scalar"
    THEN LET bkgrd_image == Arr(d.ny, d.nx, [ix \in Indices(d) |-> RAdd(R(0), bg.s)])
         IN [exc |-> NoExc,
             data |-> Arr(d.ny, d.nx, [ix \in Indices(d) |-> RSub(d.v[ix], bkgrd_image.v[ix])]),
             bkgrd_image |-> bkgrd_image, alias |-> FALSE]
    ELSE IF Shape(bg.a) # Shape(d)
    THEN [exc |-> ValueError("If input background is 2D, then it must have the same shape as the input data."),
          data |-> NoArr, bkgrd_image |-> NoArr, alias |-> FALSE]
    ELSE [exc |-> NoExc,
          data |-> Arr(d.ny, d.nx, [ix \in Indices(d) |-> RSub(d.v[ix], bg.a.v[ix])]),
          bkgrd_image |-> bg.a, alias |-> TRUE]

_apply_gain(d, variance, g) ==
    LET garr == IF g.kind = "scalar"
                THEN Arr(d.ny, d.nx, [ix \in Indices(d) |-> g.s])
                ELSE g.a
    IN IF Shape(garr) # Shape(d)
       THEN [exc |-> ValueError("If input gain is 2D, then it must have the same shape as the input data."),
             variance |-> NoArr]
       ELSE IF \E ix \in Indices(garr) : RLe(garr.v[ix], R(0))
       THEN [exc |-> ValueError("gain must be positive everywhere"), variance |-> NoArr]
       ELSE [exc |-> NoExc,
             variance |-> Arr(d.ny, d.nx,
                 [ix \in Indices(d) |-> RAdd(variance.v[ix], RDiv(d.v[ix], garr.v[ix]))])]

\* mask.nonzero(): the masked indices in row-major order
MaskIdx(m) ==
    LET all == RowMajor(m.ny, m.nx)
        F[k \in 0 .. Len(all)] ==
            IF k = 0 THEN <<>>
            ELSE IF m.v[all[k]] THEN Append(F[k - 1], all[k]) ELSE F[k - 1]
    IN F[Len(all)]

\* a[mask_idx] = 0.0
Zeroed(a, m) ==
    IF IsNone(a) THEN a
    ELSE Arr(a.ny, a.nx, [ix \in Indices(a) |-> IF m.v[ix] THEN R(0) ELSE a.v[ix]])

\* the mean of the whole neighbour box, masked pixels included
InterpolateAt_all_pixels(a, m, ji) ==
    IF IsNone(a) THEN a
    ELSE LET y0 == Max2(ji[1] - 1, 0)
             y1 == Min2(ji[1] + 2, a.ny)
             x0 == Max2(ji[2] - 1, 0)
             x1 == Min2(ji[2] + 2, a.nx)
             box == Cut(a, Slice(y0, y1, x0, x1))
             anypix(ix) == TRUE
         IN Arr(a.ny, a.nx, [a.v EXCEPT ![ji] = Mean(Selected(box, anypix))])

\* one pass of the interpolation loop body for the masked pixel (j, i):
\* a[j, i] = np.mean(a[y0:y1, x0:x1][goodpix])
InterpolateAt(a, m, ji) ==
    IF IsNone(a) THEN a
    ELSE LET y0 == Max2(ji[1] - 1, 0)
             y1 == Min2(ji[1] + 2, a.ny)
             x0 == Max2(ji[2] - 1, 0)
             x1 == Min2(ji[2] + 2, a.nx)
             box == Cut(a, Slice(y0, y1, x0, x1))
             goodpix(ix) == ~m.v[<<ix[1] + y0, ix[2] + x0>>]
         IN Arr(a.ny, a.nx, [a.v EXCEPT ![ji] = Mean(Selected(box, goodpix))])

RECURSIVE Interpolated(_, _, _)
\* the loop "for j, i in zip(*mask_idx)" over the masked pixels, in order
Interpolated(a, m, todo) ==
    IF todo = <<>> THEN a
    ELSE Interpolated(InterpolateAt(a, m, Head(todo)), m, Tail(todo))

\* the mask is applied to the data alone
_apply_mask_data_only(d, m, method, variance, bkg) ==
    IF Shape(d) # Shape(m)
    THEN [exc |-> ValueError("data and mask must have the same shape"),
          data |-> NoArr, variance |-> NoArr, background |-> bkg, written |-> FALSE]
    ELSE IF method = "exclude"
    THEN [exc |-> NoExc, data |-> Zeroed(d, m), variance |-> variance,
          background |-> bkg, written |-> TRUE]
    ELSE IF method = "interpolate"
    THEN [exc |-> NoExc,
          data |-> Interpolated(d, m, MaskIdx(m)),
          variance |-> variance,
          background |-> bkg, written |-> TRUE]
    ELSE [exc |-> ValueError("mask_method is not valid"),
          data |-> NoArr, variance |-> NoArr, background |-> bkg, written |-> FALSE]

\* Works on a deep copy of data, but on the variance and background arrays it
\* is handed: the returned background is the array that came in, written in place.
_apply_mask(d, m, method, variance, bkg) ==
    IF Shape(d) # Shape(m)
    THEN [exc |-> ValueError("data and mask must have the same shape"),
          data |-> NoArr, variance |-> NoArr, background |-> bkg, written |-> FALSE]
    ELSE IF method = "exclude"
    THEN [exc |-> NoExc, data |-> Zeroed(d, m), variance |-> Zeroed(variance, m),
          background |-> Zeroed(bkg, m), written |-> TRUE]
    ELSE IF method = "interpolate"
    THEN [exc |-> NoExc,
          data |-> Interpolated(d, m, MaskIdx(m)),
          variance |-> Interpolated(variance, m, MaskIdx(m)),
          background |-> Interpolated(bkg, m, MaskIdx(m)), written |-> TRUE]
    ELSE [exc |-> ValueError("mask_method is not valid"),
          data |-> NoArr, variance |-> NoArr, background |-> bkg, written |-> FALSE]

\* The result of _prepare_data: the exception raised if any, the prepared
\* image (data_is_input: it is the caller's data array itself), the variance
\* (always a new array), the background image (bkg_is_input: it is the caller's
\* background array itself), and the contents the caller's background array
\* holds when the call ends (caller_bkg).
_prepare_data(d, err, g, m, method, bg) ==
    LET sb == IF bg.kind # "none" THEN _subtract_background(d, bg)
              ELSE [exc |-> NoExc, data |-> d, bkgrd_image |-> NoArr, alias |-> FALSE]
        failed(e, cb) == [exc |-> e, data |-> NoArr, data_is_input |-> FALSE,
                          variance |-> NoArr, background |-> NoArr,
                          bkg_is_input |-> FALSE, caller_bkg |-> cb,
                          steps |-> <<"_prepare_data">>]
    IN IF Raised(sb.exc) THEN failed(sb.exc, bg)
       ELSE LET d1 == sb.data
                var0 == IF IsNone(err) THEN NoArr
                        ELSE Arr(err.ny, err.nx, [ix \in Indices(err) |-> RMul(err.v[ix], err.v[ix])])
                ag == IF ~IsNone(err) /\ Shape(d1) = Shape(err) /\ g.kind # "none"
                      THEN _apply_gain(d1, var0, g)
                      ELSE [exc |-> NoExc, variance |-> var0]
            IN IF ~IsNone(err) /\ Shape(d1) # Shape(err)
               THEN failed(ValueError("data and error must have the same shape"), bg)
               ELSE IF Raised(ag.exc) THEN failed(ag.exc, bg)
               ELSE IF IsNone(m)
               THEN [exc |-> NoExc, data |-> d1, data_is_input |-> bg.kind = "none",
                     variance |-> ag.variance, background |-> sb.bkgrd_image,
                     bkg_is_input |-> sb.alias, caller_bkg |-> bg,
                     steps |-> <<"_prepare_data">>]
               ELSE LET am == _apply_mask(d1, m, method, ag.variance, sb.bkgrd_image)
                        cb == IF sb.alias /\ am.written THEN ArrayArg(am.background) ELSE bg
                    IN IF Raised(am.exc) THEN failed(am.exc, cb)
                       ELSE [exc |-> NoExc, data |-> am.data, data_is_input |-> FALSE,
                             variance |-> am.variance, background |-> am.background,
                             bkg_is_input |-> sb.alias, caller_bkg |-> cb,
                             steps |-> <<"_prepare_data">>]

-----------------------------------------------------------------------------
(* scipy.ndimage.find_objects and SegmentProperties.__init__ *)

MaxOf(S) == IF S = {} THEN 0 ELSE CHOOSE x \in S : \A y \in S : y <= x
MinOf(S) == CHOOSE x \in S : \A y \in S : x <= y

\* the minimal box enclosing the pixels px
BoundingBox(px) ==
    Slice(MinOf({ix[1] : ix \in px}), MaxOf({ix[1] : ix \in px}) + 1,
          MinOf({ix[2] : ix \in px}), MaxOf({ix[2] : ix \in px}) + 1)

\* the boxes of the labels that occur, one after the other, no entry for a
\* label that does not occur
find_objects_compact(segm) ==
    LET occur == {segm.v[ix] : ix \in Indices(segm)} \ {0}
        F[k \in 0 .. MaxOf(occur)] ==
            IF k = 0 THEN <<>>
            ELSE IF k \in occur
            THEN Append(F[k - 1], [present |-> TRUE,
                                   sl |-> BoundingBox({ix \in Indices(segm) : segm.v[ix] = k})])
            ELSE F[k - 1]
    IN F[MaxOf(occur)]

\* find_objects(segment_image): one entry per label 1..max(segment_image), the
\* minimal box enclosing the label's pixels, or None for a label with no pixel.
find_objects(segm) ==
    [l \in 1 .. MaxOf({segm.v[ix] : ix \in Indices(segm)}) |->
        IF \A ix \in Indices(segm) : segm.v[ix] # l
        THEN [present |-> FALSE, sl |-> NoSlice]
        ELSE [present |-> TRUE, sl |-> BoundingBox({ix \in Indices(segm) : segm.v[ix] = l})]]

NoObj == [label |-> 0, _slice |-> NoSlice, _image |-> NoRef, _variance |-> NoRef,
          _background |-> NoRef, _mask |-> NoRef]

\* a Python list index: a negative index counts from the end; 0 when the
\* index is out of range, else the 1-based position
PyIndex(seq, i) ==
    IF 0 <= i /\ i < Len(seq) THEN i + 1
    ELSE IF i < 0 /\ -i <= Len(seq) THEN Len(seq) + i + 1
    ELSE 0

\* the shape check alone, the label accepted whatever it is
ArgumentError_shape_only(d, segm, lab) ==
    IF Shape(segm) # Shape(d)
    THEN ValueError("segment_image and data must have the same shape")
    ELSE NoExc

\* the checks that open SegmentProperties.__init__: the exception they raise
ArgumentError(d, segm, lab) ==
    IF Shape(segm) # Shape(d)
    THEN ValueError("segment_image and data must have the same shape")
    ELSE IF lab = 0
    THEN ValueError("label 0 is reserved for the background")
    ELSE IF lab < 0
    THEN ValueError("label must be a positive integer")
    ELSE NoExc

\* SegmentProperties.__init__: the exception raised if any, the object built,
\* the contents of the caller's background array when the call ends, and the
\* internal steps gone through.
SegmentProperties(d, segm, lab, lsl, err, g, m, method, bg) ==
    LET fail(e, cb, st) == [exc |-> e, obj |-> NoObj, caller_bkg |-> cb, steps |-> st]
        \* from "self._inputimage = data" on, given what _prepare_data returned
        \* and, when no label_slice was passed, what find_objects returned
        built(pd, label_slices) ==
            LET steps == IF lsl.given THEN pd.steps
                         ELSE Append(pd.steps, "find_objects")
                at == PyIndex(label_slices, lab - 1)
                sl == IF lsl.given THEN Slice(lsl.y0, lsl.y1, lsl.x0, lsl.x1)
                      ELSE IF at # 0 THEN label_slices[at].sl
                      ELSE NoSlice
            IN IF Raised(pd.exc) THEN fail(pd.exc, pd.caller_bkg, pd.steps)
               ELSE IF ~lsl.given /\ at = 0
               THEN fail(IndexError("list index out of range"), pd.caller_bkg, steps)
               ELSE IF ~lsl.given /\ ~label_slices[at].present
               THEN fail(ValueError("label is not in the input segment_image"),
                         pd.caller_bkg, steps)
               ELSE [exc |-> NoExc,
                     obj |-> [label |-> lab, _slice |-> sl,
                              _image |-> IF pd.data_is_input THEN InputRef
                                         ELSE OwnRef(pd.data),
                              _variance |-> IF IsNone(pd.variance) THEN NoRef
                                            ELSE OwnRef(pd.variance),
                              _background |-> IF IsNone(pd.background) THEN NoRef
                                              ELSE IF pd.bkg_is_input THEN InputRef
                                              ELSE OwnRef(pd.background),
                              _mask |-> IF method = "interpolate"
                                        THEN OwnRef(Arr(d.ny, d.nx,
                                                 [ix \in Indices(d) |-> FALSE]))
                                        ELSE IF IsNone(m) THEN NoRef ELSE InputRef],
                     caller_bkg |-> pd.caller_bkg, steps |-> steps]
    IN IF Raised(ArgumentError(d, segm, lab))
       THEN fail(ArgumentError(d, segm, lab), bg, <<>>)
       ELSE built(_prepare_data(d, err, g, m, method, bg),
                  IF lsl.given THEN <<>> ELSE find_objects(segm))

-----------------------------------------------------------------------------
(* The lazy properties of SegmentProperties, read in the current state *)

\* the arrays an object refers to
Image(o) == IF o._image.kind = "input" THEN data ELSE o._image.own
Background(o) == IF o._background.kind = "input" THEN background.a ELSE o._background.own
Mask(o) == IF o._mask.kind = "input" THEN mask ELSE o._mask.own

_in_segment(o) ==
    LET eq(c) == Arr(c.ny, c.nx, [ix \in Indices(c) |-> c.v[ix] = o.label])
    IN eq(Cut(segment_image, o._slice))

_local_mask(o) ==
    LET not(ins) == Arr(ins.ny, ins.nx, [ix \in Indices(ins) |-> ~ins.v[ix]])
        or(nins, mc) == Arr(nins.ny, nins.nx, [ix \in Indices(nins) |-> nins.v[ix] \/ mc.v[ix]])
    IN IF o._mask.kind = "none"
       THEN not(_in_segment(o))
       ELSE or(not(_in_segment(o)), Cut(Mask(o), o._slice))

data_cutout(o) == Cut(data, o._slice)

_data_cutout_maskzeroed_double(o) ==
    LET zeroed(dc, lm) ==
            Arr(dc.ny, dc.nx, [ix \in Indices(dc) |-> IF lm.v[ix] THEN R(0) ELSE dc.v[ix]])
    IN zeroed(data_cutout(o), _local_mask(o))

values(o) ==
    LET unmasked(dc, lm) == Selected(dc, LAMBDA ix : ~lm.v[ix])
    IN unmasked(data_cutout(o), _local_mask(o))

\* skimage.measure.moments_central(image, cr, cc, order):
\* mu[p, q] = sum over r, c of image[r, c] * (r - cr)**q * (c - cc)**p
moments_central(img, cr, cc, order) ==
    [pq \in (0 .. order) \X (0 .. order) |->
        LET all == RowMajor(img.ny, img.nx)
        IN SumSeq([k \in 1 .. Len(all) |->
               RMul(img.v[all[k]],
                    RMul(RPow(RSub(R(all[k][1]), cr), pq[2]),
                         RPow(RSub(R(all[k][2]), cc), pq[1])))])]

\* skimage.measure.moments(image, order): the moments about (0, 0)
moments(o) == moments_central(_data_cutout_maskzeroed_double(o), R(0), R(0), 3)

local_centroid(o) ==
    LET ycen_xcen(m) == <<RDiv(m[<<0, 1>>], m[<<0, 0>>]), RDiv(m[<<1, 0>>], m[<<0, 0>>])>>
    IN ycen_xcen(moments(o))

\* the centroid relative to the cutout, the slice start not added
centroid_local_only(o) == local_centroid(o)

centroid(o) ==
    LET shifted(lc) == <<RAdd(lc[1], R(o._slice.y0)), RAdd(lc[2], R(o._slice.x0))>>
    IN shifted(local_centroid(o))

area(o) == Len(values(o))

\* np.sum of a masked array: the sum of the unmasked elements, or the constant
\* numpy.ma.masked when every element is masked
segment_sum(o) ==
    LET unmasked(ic, lm) == Selected(ic, LAMBDA ix : ~lm.v[ix])
        sum(vs) == [masked |-> vs = <<>>, val |-> SumSeq(vs)]
    IN sum(unmasked(Cut(Image(o), o._slice), _local_mask(o)))

-----------------------------------------------------------------------------
(* covariance, covariance_eigvals, eccentricity *)

\* A surd [a, b, d] is the real number a + b * sqrt(d), for rationals a, b and
\* d >= 0: the eigenvalues of a symmetric 2x2 rational matrix are of this form.
Surd(a, b, d) == [a |-> a, b |-> b, d |-> d]
SSub(s, t) == Surd(RSub(s.a, t.a), RSub(s.b, t.b), s.d)
\* the sign of a + b * sqrt(d)
SSign(s) ==
    LET sa == RSign(s.a)
        sb == IF RSign(s.d) = 0 THEN 0 ELSE RSign(s.b)
    IN IF sb = 0 THEN sa
       ELSE IF sa = 0 THEN sb
       ELSE IF sa = sb THEN sa
       ELSE sa * RSign(RSub(RMul(s.a, s.a), RMul(RMul(s.b, s.b), s.d)))
SLe(s, t) == SSign(SSub(s, t)) <= 0
SEq(s, t) == SSign(SSub(s, t)) = 0

moments_central_of(o) ==
    LET about(lc) == moments_central(_data_cutout_maskzeroed_double(o), lc[1], lc[2], 3)
    IN about(local_centroid(o))

covariance(o) ==
    LET cov(mu) ==
            LET m(p, q) == RDiv(mu[<<p, q>>], mu[<<0, 0>>])
            IN <<<<m(2, 0), m(1, 1)>>, <<m(1, 1), m(0, 2)>>>>
    IN cov(moments_central_of(o))

\* np.linalg.eigvals of a symmetric 2x2 matrix [[a, b], [b, c]]: raises
\* LinAlgError on a non-finite entry; otherwise the two roots
\* (a + c)/2 +- sqrt((a - c)**2 + 4 b**2)/2, in an order LAPACK chooses.
\* The result is the set of the orders it may return them in.
eigvals(cov) ==
    LET a == cov[1][1]
        b == cov[1][2]
        c == cov[2][2]
        half == <<1, 2>>
        roots(t, disc) == LET hi == Surd(t, half, disc)
                              lo == Surd(t, RNeg(half), disc)
                          IN {<<hi, lo>>, <<lo, hi>>}
    IN IF ~(IsFinite(a) /\ IsFinite(b) /\ IsFinite(c)) THEN {}
       ELSE roots(RMul(half, RAdd(a, c)),
                  RAdd(RMul(RSub(a, c), RSub(a, c)), RMul(R(4), RMul(b, b))))

\* the eigenvalues as np.linalg.eigvals returned them, not ordered
covariance_eigvals_unsorted(ev) == ev

\* (np.max(eigvals), np.min(eigvals))
covariance_eigvals(ev) ==
    <<IF SLe(ev[2], ev[1]) THEN ev[1] ELSE ev[2],
      IF SLe(ev[1], ev[2]) THEN ev[1] ELSE ev[2]>>

\* 0. when l1 == 0, else np.sqrt(1. - (l2 / l1)): the square root of the
\* quotient num / den = (l1 - l2) / l1, nan when that quotient is negative.
eccentricity(l) ==
    IF SSign(l[1]) = 0 THEN [kind |-> "zero", num |-> l[1], den |-> l[1]]
    ELSE IF SSign(SSub(l[1], l[2])) * SSign(l[1]) < 0
    THEN [kind |-> "nan", num |-> SSub(l[1], l[2]), den |-> l[1]]
    ELSE [kind |-> "sqrt", num |-> SSub(l[1], l[2]), den |-> l[1]]

\* the value of an eccentricity lies in [0, 1): it is the 0. of the early
\* return, or the root of a quotient q with 0 <= q < 1
EccInHalfOpenUnit(e) ==
    \/ e.kind = "zero"
    \/ /\ e.kind = "sqrt"
       /\ SSign(e.num) * SSign(e.den) >= 0
       /\ SSign(SSub(e.num, e.den)) * SSign(e.den) < 0
\* the value of an eccentricity lies in [0, 1]
EccInClosedUnit(e) ==
    \/ e.kind = "zero"
    \/ /\ e.kind = "sqrt"
       /\ SSign(e.num) * SSign(e.den) >= 0
       /\ SSign(SSub(e.num, e.den)) * SSign(e.den) <= 0
\* the value of an eccentricity is exactly 1
EccIsOne(e) == e.kind = "sqrt" /\ SSign(SSub(e.num, e.den)) = 0

-----------------------------------------------------------------------------
(* The caller: construction and property reads *)

\* nothing read yet
NoCache == [n \in {} |-> 0]

\* no Table: its column names in order, and the values of each column
NoTable == [made |-> FALSE, colnames |-> <<>>, cols |-> NoCache]
NoLabels == [given |-> FALSE, ids |-> {}]
NoColumns == [given |-> FALSE, names |-> <<>>]
NoLabelSlice == [given |-> FALSE, y0 |-> 0, y1 |-> 0, x0 |-> 0, x1 |-> 0]

\* what np.linalg.eigvals may do for object o: return the eigenvalues in
\* either order, or raise LinAlgError
EigvalsOutcomes(o) ==
    LET zero == Surd(R(0), R(0), R(0))
        outcomes(evs) == IF evs = {} THEN {[raised |-> TRUE, ev |-> <<zero, zero>>]}
                         ELSE {[raised |-> FALSE, ev |-> ev] : ev \in evs}
    IN outcomes(eigvals(covariance(o)))

\* np.linalg.eigvals is called only if one of `names` needs it
Outcomes(o, names) ==
    IF \E n \in 1 .. Len(names) : names[n] \in {"covariance_eigvals", "eccentricity"}
    THEN EigvalsOutcomes(o)
    ELSE {[raised |-> FALSE, ev |-> <<Surd(R(0), R(0), R(0)), Surd(R(0), R(0), R(0))>>]}

\* the properties the caller reads, in the order it reads them
ReadNames == <<"id", "centroid", "segment_sum", "area", "covariance_eigvals", "eccentricity">>

\* a property's getter raises
GetterRaises(name, out) == name \in {"covariance_eigvals", "eccentricity"} /\ out.raised

\* the value a property's getter computes for object o, out being what
\* np.linalg.eigvals does
Getter(o, name, out) ==
    CASE name = "id" -> o.label
      [] name = "centroid" -> centroid(o)
      [] name = "xcentroid" -> centroid(o)[2]
      [] name = "ycentroid" -> centroid(o)[1]
      [] name = "segment_sum" -> segment_sum(o)
      [] name = "area" -> area(o)
      [] name = "covariance_eigvals" -> covariance_eigvals(out.ev)
      [] name = "eccentricity" -> eccentricity(covariance_eigvals(out.ev))

RECURSIVE ReadAll(_, _, _, _)
\* getattr(o, name) for each name in turn: a lazyproperty is computed on its
\* first read and kept in the object (c); the first getter that raises ends the reads
ReadAll(o, c, names, out) ==
    IF names = <<>> THEN [cache |-> c, exc |-> NoExc]
    ELSE LET name == Head(names)
         IN IF name \in DOMAIN c THEN ReadAll(o, c, Tail(names), out)
            ELSE IF GetterRaises(name, out)
            THEN [cache |-> c, exc |-> [type |-> "LinAlgError", msg |-> name]]
            ELSE ReadAll(o, c @@ (name :> Getter(o, name, out)), Tail(names), out)

\* obj = SegmentProperties(data, segment_image, lab, label_slice=lsl, error=error,
\*           gain=gain, mask=mask, mask_method=method, background=background)
Construct(lab, lsl, method) ==
    LET returned(r) ==
            /\ label' = lab
            /\ label_slice' = lsl
            /\ mask_method' = method
            /\ background' = r.caller_bkg
            /\ exc' = r.exc
            /\ trace' = r.steps
            /\ objs' = IF Raised(r.exc) THEN objs ELSE Append(objs, r.obj)
            /\ cache' = IF Raised(r.exc) THEN cache ELSE Append(cache, NoCache)
    IN /\ returned(SegmentProperties(data, segment_image, lab, lsl, error, gain, mask,
                                     method, background))
       /\ UNCHANGED <<data, segment_image, error, gain, mask, labels, columns, table,
                       psfvars>>

\* the caller reads the properties `names` of the i-th object, in order
Get(i, names) ==
    /\ i \in 1 .. Len(objs)
    /\ {n \in 1 .. Len(names) : names[n] \notin DOMAIN cache[i]} # {}
    /\ \E out \in Outcomes(objs[i], names) :
          LET read(r) == /\ cache' = [cache EXCEPT ![i] = r.cache]
                         /\ exc' = r.exc
          IN read(ReadAll(objs[i], cache[i], names, out))
    /\ UNCHANGED <<inputs, objs, trace, table, pc, psfvars>>

-----------------------------------------------------------------------------
(* segment_properties *)

\* np.unique(segment_image[segment_image > 0])
PositiveLabels(segm) == {segm.v[ix] : ix \in Indices(segm)} \ {0}

\* The exception raised if any, the list returned, the contents of the caller's
\* background array when the call ends.  One SegmentProperties is constructed
\* per find_objects entry that is not None and whose label is in label_ids,
\* each from the caller's arrays as the constructions before it left them.
segment_properties(d, segm, err, g, m, method, bg, labs) ==
    LET \* one pass of the loop body: the list so far, the object constructed
        appended(prev, r) ==
            IF Raised(r.exc)
            THEN [exc |-> r.exc, list |-> <<>>, caller_bkg |-> r.caller_bkg]
            ELSE [exc |-> NoExc, list |-> Append(prev.list, r.obj),
                  caller_bkg |-> r.caller_bkg]
        loop(label_ids, label_slices) ==
            LET lsl(k) == [given |-> TRUE, y0 |-> label_slices[k].sl.y0,
                           y1 |-> label_slices[k].sl.y1,
                           x0 |-> label_slices[k].sl.x0,
                           x1 |-> label_slices[k].sl.x1]
                pass(prev, k) ==
                    IF Raised(prev.exc) \/ ~label_slices[k].present \/ k \notin label_ids
                    THEN prev
                    ELSE appended(prev, SegmentProperties(d, segm, k, lsl(k), err, g, m,
                                                          method, prev.caller_bkg))
                F[k \in 0 .. Len(label_slices)] ==
                    IF k = 0 THEN [exc |-> NoExc, list |-> <<>>, caller_bkg |-> bg]
                    ELSE pass(F[k - 1], k)
            IN F[Len(label_slices)]
    IN IF Shape(segm) # Shape(d)
       THEN [exc |-> ValueError("segment_image and data must have the same shape"),
             list |-> <<>>, caller_bkg |-> bg]
       ELSE loop(IF labs.given THEN labs.ids ELSE PositiveLabels(segm), find_objects(segm))

\* objs = segment_properties(data, segment_image, error=error, gain=gain, mask=mask,
\*            mask_method=mask_method, background=background, labels=labels)
Call ==
    /\ pc = "start"
    /\ LET returned(r) == /\ exc' = r.exc
                           /\ objs' = r.list
                           /\ cache' = [i \in 1 .. Len(r.list) |-> NoCache]
                           /\ background' = r.caller_bkg
       IN returned(segment_properties(data, segment_image, error, gain, mask, mask_method,
                                      background, labels))
    /\ pc' = "called"
    /\ UNCHANGED <<data, segment_image, error, gain, mask, mask_method, label,
                   label_slice, labels, columns, trace, table, psfvars>>

-----------------------------------------------------------------------------------------------------------------------------------------------------
(* properties_table *)

\* all scalar-valued properties
columns_all ==
    <<"id", "xcentroid", "ycentroid", "segment_sum",
      "segment_sum_err", "background_sum", "background_mean",
      "background_atcentroid", "xmin", "xmax", "ymin", "ymax",
      "min_value", "max_value", "minval_xpos", "minval_ypos",
      "maxval_xpos", "maxval_ypos", "area", "equivalent_radius",
      "perimeter", "semimajor_axis_sigma",
      "semiminor_axis_sigma", "eccentricity", "orientation",
      "se_ellipticity", "se_elongation", "se_x2", "se_xy",
      "se_y2", "se_cxx", "se_cxy", "se_cyy">>

\* props_table[column] = values: a column the table does not have is added
\* after the others, a column it has is replaced where it stands
SetColumn(t, column, vals) ==
    IF \E k \in 1 .. Len(t.colnames) : t.colnames[k] = column
    THEN [t EXCEPT !.cols = [@ EXCEPT ![column] = vals]]
    ELSE [made |-> TRUE, colnames |-> Append(t.colnames, column),
          cols |-> t.cols @@ (column :> vals)]

RECURSIVE FillColumns(_, _, _, _)
\* the loop "for column in table_columns": values[0] is looked at for every
\* column, and there is none when segment_props is empty
FillColumns(t, segment_props, caches, todo) ==
    IF todo = <<>> THEN [exc |-> NoExc, table |-> t, caches |-> caches]
    ELSE IF segment_props = <<>>
    THEN [exc |-> IndexError("list index out of range"), table |-> NoTable,
          caches |-> caches]
    ELSE LET column == Head(todo)
             set(read) ==
                 FillColumns(SetColumn(t, column,
                                 [i \in 1 .. Len(segment_props) |-> read[i].cache[column]]),
                             segment_props,
                             [i \in 1 .. Len(segment_props) |-> read[i].cache],
                             Tail(todo))
         IN set([i \in 1 .. Len(segment_props) |->
                    ReadAll(segment_props[i], caches[i], <<column>>,
                            CHOOSE out \in Outcomes(segment_props[i], <<column>>) : TRUE)])

\* properties_table(segment_props, columns=cols, exclude_columns=excl): the
\* exception raised if any, the Table returned, the objects' caches after it
properties_table(segment_props, caches, cols, excl) ==
    LET kept(name) == \A k \in 1 .. Len(excl.names) : excl.names[k] # name
        table_columns == IF cols.given THEN cols.names
                         ELSE IF excl.given THEN SelectSeq(columns_all, kept)
                         ELSE columns_all
    IN FillColumns([made |-> TRUE, colnames |-> <<>>, cols |-> NoCache],
                   segment_props, caches, table_columns)

-----
(* Images *)

\* every ny x nx array with elements from S
Arrays(sh, S) == {Arr(sh[1], sh[2], f) : f \in [Idx(sh[1], sh[2]) -> S]}

Values == {R(n) : n \in 0 .. MaxVal}
Labels == 0 .. MaxLabel

\* the example of the segment_properties docstring: np.arange(16.).reshape(4, 4)
DocImage == Arr(4, 4, [ix \in Idx(4, 4) |-> R(4 * ix[1] + ix[2])])
DocSegmRows == <<<<1, 1, 0, 0>>, <<1, 0, 0, 2>>, <<0, 0, 2, 2>>, <<0, 2, 2, 0>>>>
DocSegm == Arr(4, 4, [ix \in Idx(4, 4) |-> DocSegmRows[ix[1] + 1][ix[2] + 1]])

\* nothing called yet
\* no call into psf/models.py was made
NoArgs == [call |-> "none"]
NoModel == [class |-> "none"]
NoResult == <<>>

Fresh ==
    /\ objs = <<>>
    /\ cache = <<>>
    /\ exc = NoExc
    /\ trace = <<>>
    /\ table = NoTable
    /\ pc = "start"
    /\ args = NoArgs
    /\ model = NoModel
    /\ result = NoResult

-----------------------------------------------------------------------------
(* SpecProps: segment_properties on an image and a label map, without mask,   *)
(* error or background, and the caller reading each region's properties.      *)

InitProps ==
    /\ \/ \E sh \in Shapes : /\ data \in Arrays(sh, Values)
                             /\ segment_image \in Arrays(sh, Labels)
       \/ data = DocImage /\ segment_image = DocSegm
    /\ error = NoArr
    /\ gain = NoneArg
    /\ mask = NoArr
    /\ mask_method = "exclude"
    /\ background = NoneArg
    /\ label = 0
    /\ label_slice = NoLabelSlice
    /\ labels = NoLabels
    /\ columns = NoColumns
    /\ Fresh

GetAny == \E i \in 1 .. Len(objs) : cache[i] = NoCache /\ Get(i, ReadNames)

NextProps == Call \/ GetAny

SpecProps == InitProps /\ [][NextProps]_vars

-----------------------------------------------------------------------------
(* Claims about SpecProps *)

RECURSIVE IntSum(_, _)
\* the sum of f[x] over the x in S
IntSum(S, f) ==
    IF S = {} THEN 0
    ELSE LET x == CHOOSE y \in S : TRUE
         IN f[x] + IntSum(S \ {x}, f)

\* the pixels of the whole image that carry label l
PixelsOf(l) == {ix \in Indices(segment_image) : segment_image.v[ix] = l}
\* the (integral) image value at a pixel
Val(ix) == data.v[ix][1]

\* the objects whose properties the caller has read
ReadObjs == {i \in 1 .. Len(objs) : "area" \in DOMAIN cache[i]}

\* C1: with no mask and no background, a region's segment_sum is the sum of
\* the image over exactly the pixels carrying its label, its area is the number
\* of those pixels, and its centroid (y, x) is the value-weighted mean of their
\* image coordinates (not finite when the values sum to 0); region 1 of the
\* docstring's 4x4 example has centroid (0.8, 0.2), segment_sum 5 and area 3.
ClaimC1 ==
    \A i \in ReadObjs :
        LET o == objs[i]
            px == PixelsOf(o.label)
            S == IntSum(px, [ix \in px |-> Val(ix)])
            Sy == IntSum(px, [ix \in px |-> ix[1] * Val(ix)])
            Sx == IntSum(px, [ix \in px |-> ix[2] * Val(ix)])
        IN /\ cache[i].segment_sum = [masked |-> FALSE, val |-> R(S)]
           /\ cache[i].area = Cardinality(px)
           /\ cache[i].centroid = <<RNorm(Sy, S), RNorm(Sx, S)>>
           /\ (data = DocImage /\ segment_image = DocSegm /\ o.label = 1) =>
                 /\ cache[i].centroid = <<<<4, 5>>, <<1, 5>>>>
                 /\ cache[i].segment_sum.val = R(5)
                 /\ cache[i].area = 3

\* the docstring's example has been run and region 1 read
WitnessC1 ==
    /\ data = DocImage
    /\ segment_image = DocSegm
    /\ Len(objs) = 2
    /\ 1 \in ReadObjs
    /\ objs[1].label = 1
    /\ cache[1].centroid = <<<<4, 5>>, <<1, 5>>>>

\* a region whose slice does not start at the image origin has been read
WitnessC1Offset ==
    \E i \in ReadObjs : objs[i]._slice.y0 > 0 /\ objs[i]._slice.x0 > 0
                        /\ IsFinite(cache[i].centroid[1])

\* the objects whose eccentricity the caller has read (the getter did not raise)
EccObjs == {i \in ReadObjs : "eccentricity" \in DOMAIN cache[i]}

\* the pixels of label l with a nonzero value
NonzeroPixels(l) == {ix \in PixelsOf(l) : Val(ix) # 0}
\* all of S lies on one straight line
Collinear(S) ==
    \A p, q, r \in S :
        (q[1] - p[1]) * (r[2] - p[2]) = (q[2] - p[2]) * (r[1] - p[1])
\* all of S lies on one row or on one column
OneRowOrColumn(S) ==
    \/ \A p, q \in S : p[1] = q[1]
    \/ \A p, q \in S : p[2] = q[2]

\* C4 as stated: for every region, covariance_eigvals has its first
\* eigenvalue >= its second and eccentricity lies in [0, 1).
ClaimC4Original ==
    \A i \in EccObjs :
        /\ SLe(cache[i].covariance_eigvals[2], cache[i].covariance_eigvals[1])
        /\ EccInHalfOpenUnit(cache[i].eccentricity)

\* C4 (amended): for every region whose values (all >= 0) do not sum to 0,
\* covariance_eigvals has its first eigenvalue >= its second and eccentricity
\* lies in the closed interval [0, 1]: it is the 0 of the early return exactly
\* when all the weight is on one pixel (larger eigenvalue 0), and it is exactly
\* 1 when two or more nonzero pixels lie on one straight line, which every
\* such region on a single row or column does.  For a region whose values sum
\* to 0 np.linalg.eigvals raises and neither property has a value.
ClaimC4 ==
    \A i \in ReadObjs :
        LET o == objs[i]
            px == PixelsOf(o.label)
            nz == NonzeroPixels(o.label)
            S == IntSum(px, [ix \in px |-> Val(ix)])
        IN /\ (i \in EccObjs) <=> (S # 0)
           /\ (i \in EccObjs) <=> ("covariance_eigvals" \in DOMAIN cache[i])
           /\ (i \in EccObjs) =>
                LET l == cache[i].covariance_eigvals
                    e == cache[i].eccentricity
                IN /\ SLe(l[2], l[1])
                   /\ EccInClosedUnit(e)
                   /\ (SSign(l[1]) = 0) <=> (e.kind = "zero")
                   /\ (e.kind = "zero") <=> (Cardinality(nz) = 1)
                   /\ EccIsOne(e) <=> (Cardinality(nz) >= 2 /\ Collinear(nz))
                   /\ (Cardinality(nz) >= 2 /\ OneRowOrColumn(nz)) => EccIsOne(e)

\* a region of two or more nonzero pixels on a single row has been read, and
\* its eccentricity is 1
WitnessC4 ==
    \E i \in EccObjs :
        /\ Cardinality(NonzeroPixels(objs[i].label)) >= 2
        /\ \A p, q \in PixelsOf(objs[i].label) : p[1] = q[1]
        /\ EccIsOne(cache[i].eccentricity)

\* a region that is not on one line has been read: its eccentricity is below 1
WitnessC4Inside ==
    \E i \in EccObjs :
        /\ ~Collinear(NonzeroPixels(objs[i].label))
        /\ EccInHalfOpenUnit(cache[i].eccentricity)
        /\ SSign(SSub(cache[i].covariance_eigvals[1], cache[i].covariance_eigvals[2])) > 0

-----------------------------------------------------------------------------
(* SpecMask: the caller builds the region of label 1 twice from the same      *)
(* arrays, once per mask method, in either order, then reads both sums.       *)

\* label maps whose label 1 covers the first k columns
ColumnSegms(sh) ==
    {Arr(sh[1], sh[2], [ix \in Idx(sh[1], sh[2]) |-> IF ix[2] < k THEN 1 ELSE 0]) :
        k \in (sh[2] - 1) .. sh[2]}

\* a 2D array that differs from pixel to pixel: 1 + row + column
Ramp(sh) == Arr(sh[1], sh[2], [ix \in Idx(sh[1], sh[2]) |-> R(1 + ix[1] + ix[2])])

Backgrounds(sh) == {NoneArg, ScalarArg(R(1)), ArrayArg(Ramp(sh))}

InitMask ==
    /\ \E sh \in Shapes :
          /\ data \in Arrays(sh, Values)
          /\ mask \in Arrays(sh, BOOLEAN)
          /\ segment_image \in ColumnSegms(sh)
          /\ background \in Backgrounds(sh)
    /\ error = NoArr
    /\ gain = NoneArg
    /\ mask_method = "exclude"
    /\ label = 1
    /\ label_slice = NoLabelSlice
    /\ labels = NoLabels
    /\ columns = NoColumns
    /\ Fresh

\* an object built with mask_method='interpolate' holds its own all-False mask
IsInterpolated(o) == o._mask.kind = "own"
MethodOf(o) == IF IsInterpolated(o) THEN "interpolate" ELSE "exclude"

\* SegmentProperties(data, segment_image, 1, mask=mask, mask_method=m, background=background)
Build(m) ==
    /\ pc = "start"
    /\ \A i \in 1 .. Len(objs) : MethodOf(objs[i]) # m
    /\ Construct(label, label_slice, m)
    /\ pc' = IF Len(objs) = 1 THEN "built" ELSE "start"

BuildExclude == Build("exclude")
BuildInterpolate == Build("interpolate")

\* the caller reads segment_sum of the objects, first to last
ReadSum ==
    /\ pc = "built"
    /\ \E i \in 1 .. Len(objs) :
          /\ \A j \in 1 .. i - 1 : cache[j] # NoCache
          /\ Get(i, <<"segment_sum">>)

NextMask == BuildExclude \/ BuildInterpolate \/ ReadSum

SpecMask == InitMask /\ [][NextMask]_vars

-----------------------------------------------------------------------------
(* Claims about SpecMask *)

RECURSIVE RatSum(_, _)
\* the sum of the rationals f[x] over the x in S
RatSum(S, f) ==
    IF S = {} THEN R(0)
    ELSE LET x == CHOOSE y \in S : TRUE
         IN RAdd(f[x], RatSum(S \ {x}, f))

\* both objects are built and both sums read
BothRead == Len(objs) = 2 /\ \A i \in 1 .. 2 : "segment_sum" \in DOMAIN cache[i]
SumOf(m) == cache[CHOOSE i \in 1 .. 2 : MethodOf(objs[i]) = m].segment_sum

\* a != b for two segment_sum results
SumsDiffer(a, b) ==
    IF a.masked \/ b.masked THEN a.masked # b.masked
    ELSE ~IsFinite(a.val) \/ ~IsFinite(b.val) \/ a.val # b.val

MaskedPixels == {ix \in Indices(mask) : mask.v[ix]}

\* the background-subtracted value of an unmasked pixel
Subtracted(ix) ==
    IF background.kind = "none" THEN data.v[ix]
    ELSE IF background.kind = "scalar" THEN RSub(data.v[ix], background.s)
    ELSE RSub(data.v[ix], background.a.v[ix])

\* the unmasked pixels of the 3x3 neighbourhood of ix
GoodNeighbours(ix) ==
    {jx \in Indices(mask) \ MaskedPixels :
        Abs(jx[1] - ix[1]) <= 1 /\ Abs(jx[2] - ix[2]) <= 1}

\* the mean of the background-subtracted values of the unmasked neighbours
Replacement(ix) ==
    LET nb == GoodNeighbours(ix)
    IN RDiv(RatSum(nb, [jx \in nb |-> Subtracted(jx)]), R(Cardinality(nb)))

\* C2 as stated: whenever the masked pixels have nonzero data values, the
\* segment_sum under 'exclude' differs from the segment_sum under 'interpolate'.
ClaimC2Original ==
    (BothRead /\ MaskedPixels # {} /\ \A ix \in MaskedPixels : data.v[ix] # R(0))
        => SumsDiffer(SumOf("exclude"), SumOf("interpolate"))

\* C2 (amended): for the same data, label map, mask and background, the
\* segment_sum under 'interpolate' is the sum of the region's unmasked pixels
\* (the segment_sum under 'exclude') plus, for each masked pixel of the region,
\* the mean of the unmasked pixels of its 3x3 neighbourhood; the two sums differ
\* exactly when those means do not add up to 0 (or every pixel of the region is
\* masked, and 'exclude' has no sum), whatever values the masked pixels hold.
ClaimC2 ==
    BothRead =>
        LET se == SumOf("exclude")
            si == SumOf("interpolate")
            region == PixelsOf(1)
            hit == region \cap MaskedPixels
            extra == RatSum(hit, [ix \in hit |-> Replacement(ix)])
            kept == region \ MaskedPixels
        IN /\ ~si.masked
           /\ se.masked <=> (kept = {})
           /\ se.val = RatSum(kept, [ix \in kept |-> Subtracted(ix)])
           /\ si.val = RAdd(se.val, extra)
           /\ SumsDiffer(se, si) <=> (se.masked \/ extra # R(0))

\* both sums read, a masked pixel of the region holds a nonzero value, and the
\* two sums are the same number
WitnessC2 ==
    /\ BothRead
    /\ \E ix \in MaskedPixels \cap PixelsOf(1) : data.v[ix] # R(0)
    /\ \A ix \in MaskedPixels : data.v[ix] # R(0)
    /\ ~SumsDiffer(SumOf("exclude"), SumOf("interpolate"))

\* both sums read and different, one masked pixel of the region replaced
WitnessC2Differ ==
    /\ BothRead
    /\ MaskedPixels \cap PixelsOf(1) # {}
    /\ ~SumOf("exclude").masked
    /\ IsFinite(SumOf("interpolate").val)
    /\ SumsDiffer(SumOf("exclude"), SumOf("interpolate"))

\* C3 as stated: a construction never changes a caller-supplied array.
ClaimC3Original ==
    [][/\ data' = data
       /\ error' = error
       /\ gain' = gain
       /\ mask' = mask
       /\ background' = background]_vars

-----------------------------------------------------------------------------
(* SpecValid: one SegmentProperties construction from arguments of every     *)
(* kind, the invalid ones included.                                          *)

\* the label maps of a shape: every label from 1 to MaxLabel + 1 alone on the
\* first pixel, and labels 1 and MaxLabel + 1 together
ValidSegms(sh) ==
    {Arr(sh[1], sh[2], [ix \in Idx(sh[1], sh[2]) |-> IF ix = <<0, 0>> THEN k ELSE 0]) :
        k \in 1 .. MaxLabel + 1}
    \cup {Arr(sh[1], sh[2], [ix \in Idx(sh[1], sh[2]) |->
              IF ix = <<0, 0>> THEN 1 ELSE IF ix[2] = sh[2] - 1 THEN MaxLabel + 1 ELSE 0])}

\* an array of a shape that holds x everywhere but first on its first pixel
Flat(sh, first, x) ==
    Arr(sh[1], sh[2], [ix \in Idx(sh[1], sh[2]) |-> IF ix = <<0, 0>> THEN first ELSE x])

\* gains: None, the scalars -1 .. MaxVal, and arrays that are 1 but for the
\* first pixel, which is 0 or 1
Gains(sh) ==
    {NoneArg} \cup {ScalarArg(R(n)) : n \in -1 .. MaxVal}
        \cup {ArrayArg(Flat(sh, R(n), R(1))) : n \in 0 .. 1}

InitValid ==
    /\ \E sh \in Shapes :
          /\ data = Ramp(sh)
          /\ segment_image \in ValidSegms(sh) \cup {Flat(o, 1, 0) : o \in Shapes \ {sh}}
          /\ error \in {NoArr, Flat(sh, R(1), R(1))} \cup {Flat(o, R(1), R(1)) : o \in Shapes \ {sh}}
          /\ gain \in Gains(sh)
          /\ mask \in {NoArr, Flat(sh, TRUE, FALSE)} \cup {Flat(o, TRUE, FALSE) : o \in Shapes \ {sh}}
          /\ background \in Backgrounds(sh)
    /\ mask_method = "exclude"
    /\ label = 0
    /\ label_slice = NoLabelSlice
    /\ labels = NoLabels
    /\ columns = NoColumns
    /\ Fresh

\* the strings passed as mask_method
Methods == {"exclude", "interpolate", "foo"}

\* a label_slice the caller passes: the whole image
WholeImage == [given |-> TRUE, y0 |-> 0, y1 |-> data.ny, x0 |-> 0, x1 |-> data.nx]

\* obj = SegmentProperties(data, segment_image, lab, label_slice=lsl, error=error,
\*           gain=gain, mask=mask, mask_method=method, background=background)
New ==
    /\ pc = "start"
    /\ \E lab \in -1 .. MaxLabel + 2, lsl \in {NoLabelSlice, WholeImage}, method \in Methods :
          Construct(lab, lsl, method)
    /\ pc' = "built"

NextValid == New

SpecValid == InitValid /\ [][NextValid]_vars

-----------------------------------------------------------------------------
(* Claims about SpecValid *)

\* the labels that occur in segment_image
Present == {segment_image.v[ix] : ix \in Indices(segment_image)} \ {0}

SameShape == Shape(segment_image) = Shape(data)

\* the construction was refused: an exception, and no object
Refused == Raised(exc) /\ objs = <<>>

\* C5: a construction with a segment_image of another shape than data, with
\* label 0 or with a negative label raises ValueError and returns no object,
\* and it does so before _prepare_data or any other step is taken.
ClaimC5 ==
    (pc = "built" /\ (~SameShape \/ label = 0 \/ label < 0))
        => /\ exc.type = "ValueError"
           /\ exc.msg = IF ~SameShape
                        THEN "segment_image and data must have the same shape"
                        ELSE IF label = 0 THEN "label 0 is reserved for the background"
                        ELSE "label must be a positive integer"
           /\ objs = <<>>
           /\ trace = <<>>

\* a negative label was refused although every other argument is acceptable
WitnessC5 ==
    /\ pc = "built"
    /\ label < 0
    /\ SameShape
    /\ mask_method = "exclude"
    /\ gain = NoneArg
    /\ IsNone(error)
    /\ exc = ValueError("label must be a positive integer")
    /\ objs = <<>>

\* segment_image of another shape was refused
WitnessC5Shape ==
    /\ pc = "built"
    /\ ~SameShape
    /\ label > 0
    /\ exc.type = "ValueError"
    /\ objs = <<>>

\* _prepare_data accepts the arguments as the construction left them
Prepared ==
    ~Raised(_prepare_data(data, error, gain, mask, mask_method, background).exc)

\* C6 as stated: a positive label that does not occur in segment_image is
\* refused with 'label is not in the input segment_image', with or without a
\* label_slice, whenever the other arguments are acceptable.
ClaimC6Original ==
    (pc = "built" /\ SameShape /\ label > 0 /\ label \notin Present /\ Prepared)
        => /\ exc = ValueError("label is not in the input segment_image")
           /\ objs = <<>>

\* C7 as stated: a mask_method other than 'exclude' and 'interpolate' is
\* refused, with or without a mask.
ClaimC7Original ==
    (pc = "built" /\ mask_method \notin {"exclude", "interpolate"}) => Refused

\* the gain is <= 0 on some pixel
GainNotPositive ==
    \/ gain.kind = "scalar" /\ RLe(gain.s, R(0))
    \/ gain.kind = "array" /\ \E ix \in Indices(gain.a) : RLe(gain.a.v[ix], R(0))

\* C8 as stated: a gain that is <= 0 on some pixel is refused, with or without
\* an error array.
ClaimC8Original ==
    (pc = "built" /\ GainNotPositive) => Refused

-----------------------------------------------------------------------------
(* SpecLabels: segment_properties on label maps with gaps, with and without  *)
(* a labels argument; the caller then reads id and area of the objects.      *)

\* the labels arguments: None, or any set of the integers -1 .. MaxLabel + 2
LabelArgs == {NoLabels} \cup {[given |-> TRUE, ids |-> S] : S \in SUBSET (-1 .. MaxLabel + 2)}

InitLabels ==
    /\ \E sh \in Shapes :
          /\ data = Ramp(sh)
          /\ segment_image \in Arrays(sh, 0 .. MaxLabel + 1)
    /\ labels \in LabelArgs
    /\ error = NoArr
    /\ gain = NoneArg
    /\ mask = NoArr
    /\ mask_method = "exclude"
    /\ background = NoneArg
    /\ label = 0
    /\ label_slice = NoLabelSlice
    /\ columns = NoColumns
    /\ Fresh

\* the caller reads id and area of the objects, first to last
ReadId ==
    /\ pc = "called"
    /\ \E i \in 1 .. Len(objs) :
          /\ \A j \in 1 .. i - 1 : cache[j] # NoCache
          /\ Get(i, <<"id", "area">>)

NextLabels == Call \/ ReadId

SpecLabels == InitLabels /\ [][NextLabels]_vars

-----------------------------------------------------------------------------
(* Claims about SpecLabels *)

\* the labels an object is to be returned for
Wanted == IF labels.given THEN Present \cap labels.ids ELSE Present

\* C10: segment_properties returns one object for each label that occurs in
\* segment_image and, when labels is given, is listed in it: as many objects
\* as such labels, in ascending label order, the id of each its label and its
\* region the pixels of that label; a listed label that does not occur (0 and
\* negative numbers included) gives no object and no error.
ClaimC10 ==
    pc = "called" =>
        /\ exc = NoExc
        /\ Len(objs) = Cardinality(Wanted)
        /\ {objs[i].label : i \in 1 .. Len(objs)} = Wanted
        /\ \A i \in 1 .. Len(objs), j \in 1 .. Len(objs) :
              i < j => objs[i].label < objs[j].label
        /\ \A i \in 1 .. Len(objs) :
              cache[i] # NoCache =>
                  /\ cache[i].id = objs[i].label
                  /\ cache[i].area = Cardinality(PixelsOf(cache[i].id))

\* labels lists a label that occurs, after a gap in the numbering, next to
\* labels that do not occur; the one object returned has been read
WitnessC10 ==
    /\ pc = "called"
    /\ labels.given
    /\ \E l \in Wanted : l > 1 /\ (l - 1) \notin Present
    /\ \E l \in labels.ids \ Present : l > 0
    /\ \E l \in labels.ids : l <= 0
    /\ objs # <<>>
    /\ \A i \in 1 .. Len(objs) : cache[i] # NoCache

-----------------------------------------------------------------------------
(* SpecTable: segment_properties, the caller reordering the list it got,     *)
(* then properties_table with an explicit columns list.                      *)

MaxColumns == 2

ColumnNames == {"id", "xcentroid", "ycentroid", "segment_sum"}

\* the columns arguments: the lists of at most MaxColumns names
ColumnArgs ==
    {[given |-> TRUE, names |-> c] :
        c \in UNION {[1 .. n -> ColumnNames] : n \in 0 .. MaxColumns}}

InitTable ==
    /\ \E sh \in Shapes :
          /\ data = Ramp(sh)
          /\ segment_image \in Arrays(sh, 0 .. MaxLabel + 1)
    /\ labels = NoLabels
    /\ error = NoArr
    /\ gain = NoneArg
    /\ mask = NoArr
    /\ mask_method = "exclude"
    /\ background = NoneArg
    /\ label = 0
    /\ label_slice = NoLabelSlice
    /\ columns = NoColumns
    /\ Fresh

\* the caller puts the objects of its list in another order
Reorder ==
    /\ pc = "called"
    /\ \E p \in Permutations(1 .. Len(objs)) :
          /\ \E i \in 1 .. Len(objs) : p[i] # i
          /\ objs' = [i \in 1 .. Len(objs) |-> objs[p[i]]]
          /\ cache' = [i \in 1 .. Len(objs) |-> cache[p[i]]]
    /\ pc' = "reordered"
    /\ UNCHANGED <<inputs, exc, trace, table, psfvars>>

\* table = properties_table(objs, columns=cols)
MakeTable ==
    /\ pc \in {"called", "reordered"}
    /\ \E cols \in ColumnArgs :
          LET returned(r) == /\ exc' = r.exc
                             /\ table' = r.table
                             /\ cache' = r.caches
          IN /\ returned(properties_table(objs, cache, cols, NoColumns))
             /\ columns' = cols
    /\ pc' = "tabled"
    /\ UNCHANGED <<data, segment_image, error, gain, mask, mask_method, background,
                   label, label_slice, labels, objs, trace, psfvars>>

NextTable == Call \/ Reorder \/ MakeTable

SpecTable == InitTable /\ [][NextTable]_vars

-----------------------------------------------------------------------------
(* Claims about SpecTable *)

\* the value of property `name` of object o (no eigenvalue is needed for the
\* names of ColumnNames)
ValueOf(o, name) == Getter(o, name, CHOOSE out \in Outcomes(o, <<name>>) : TRUE)

\* C9 as stated: properties_table with an explicit columns list returns a
\* table whose columns are those names in that order, with one row per object
\* of the list, in the order of the list, whatever that order is.
ClaimC9Original ==
    pc = "tabled" =>
        /\ exc = NoExc
        /\ table.made
        /\ table.colnames = columns.names
        /\ \A k \in 1 .. Len(columns.names) :
              /\ Len(table.cols[columns.names[k]]) = Len(objs)
              /\ \A i \in 1 .. Len(objs) :
                    table.cols[columns.names[k]][i] = ValueOf(objs[i], columns.names[k])

-----------------------------------------------------------------------------
(* Discrete2DModel (psf/models.py) *)

\* an optional argument: None, or a value
None == [given |-> FALSE]
Some(v) == [given |-> TRUE, v |-> v]

\* the elements of an array in row-major order
Ravel(a) == [k \in 1 .. a.ny * a.nx |-> a.v[RowMajor(a.ny, a.nx)[k]]]

\* np.sum(a, dtype=np.float64)
Total(a) == SumSeq(Ravel(a))

\* a / t, a * t for an array a and a scalar t
ArrDiv(a, t) == Arr(a.ny, a.nx, [ix \in Indices(a) |-> RDiv(a.v[ix], t)])
ArrMul(a, t) == Arr(a.ny, a.nx, [ix \in Indices(a) |-> RMul(a.v[ix], t)])

TypeError(msg) == [type |-> "TypeError", msg |-> msg]

\* the origin arguments: None, a tuple of numbers, a number
NoOrigin == [kind |-> "none", v |-> <<>>]
TupleOrigin(v) == [kind |-> "tuple", v |-> v]
ScalarOrigin(x) == [kind |-> "scalar", v |-> <<x>>]

\* the origin setter on an image of nx columns and ny rows: the exception raised
\* if any, _ox and _oy
origin_setter(nx, ny, origin) ==
    IF origin.kind = "none"
    THEN [exc |-> NoExc, _ox |-> RDiv(R(nx - 1), R(2)), _oy |-> RDiv(R(ny - 1), R(2))]
    ELSE IF origin.kind = "tuple" /\ Len(origin.v) = 2
    THEN [exc |-> NoExc, _ox |-> origin.v[1], _oy |-> origin.v[2]]
    ELSE [exc |-> TypeError("Parameter 'origin' must be either None or an iterable with two elements."),
          _ox |-> NaN, _oy |-> NaN]

\* the degree entries of kwargs: absent, an int, a tuple of ints
NoDegree == [kind |-> "absent", v |-> <<>>]
IntDegree(d) == [kind |-> "int", v |-> <<d>>]
TupleDegree(v) == [kind |-> "tuple", v |-> v]
\* kwargs: the 'degree' entry and the 's' entry
Kwargs(degree, sm) == [degree |-> degree, s |-> sm]
NoKwargs == Kwargs(NoDegree, None)

\* scipy's RectBivariateSpline(x, y, z, kx=kx, ky=ky, s=sm) on the grid
\* x = arange(nx), y = arange(ny): FITPACK takes degrees 1..5, more points
\* than the degree on each axis, and s >= 0
RectBivariateSpline(nx, ny, z, kx, ky, sm) ==
    IF kx \in 1 .. 5 /\ ky \in 1 .. 5 /\ nx > kx /\ ny > ky /\ RLe(R(0), sm)
    THEN [exc |-> NoExc, spline |-> [kx |-> kx, ky |-> ky, s |-> sm, z |-> z]]
    ELSE [exc |-> ValueError("RectBivariateSpline: invalid input"),
          spline |-> [kx |-> kx, ky |-> ky, s |-> sm, z |-> z]]

\* the degrees compute_interpolator reads from kwargs: <<degx, degy>>
Degrees(kwargs) ==
    IF kwargs.degree.kind = "absent" THEN <<3, 3>>
    ELSE IF kwargs.degree.kind = "tuple" /\ Len(kwargs.degree.v) = 2
    THEN <<kwargs.degree.v[1], kwargs.degree.v[2]>>
    ELSE <<kwargs.degree.v[1], kwargs.degree.v[1]>>

\* m.compute_interpolator(kwargs): the exception raised if any, the model after the call
compute_interpolator(m, kwargs) ==
    LET made(r) == [exc |-> r.exc,
                    m |-> IF Raised(r.exc) THEN m ELSE [m EXCEPT !.interpolator = r.spline]]
        smoothness == IF kwargs.s.given THEN kwargs.s.v ELSE R(0)
        spline(deg) ==
            IF kwargs.degree.kind # "absent" /\ (deg[1] < 0 \/ deg[2] < 0)
            THEN [exc |-> ValueError("Interpolator degree must be a non-negative integer"), m |-> m]
            ELSE made(RectBivariateSpline(m._nx, m._ny, m._ndata, deg[1], deg[1], smoothness))
    IN spline(Degrees(kwargs))

\* no interpolator was computed
NoSpline == [kx |-> 0, ky |-> 0, s |-> R(0), z |-> NoArr]

\* Discrete2DModel(d, flux=fl, x_0=x0, y_0=y0, origin=origin, weights=weights,
\*                 fillval=fillval, kwargs=kwargs):
\* the exception raised if any, the object constructed
Discrete2DModel(d, fl, x0, y0, origin, weights, fillval, kwargs) ==
    LET fail(e) == [exc |-> e, obj |-> NoModel]
        interpolated(r) == IF Raised(r.exc) THEN fail(r.exc) ELSE [exc |-> NoExc, obj |-> r.m]
        normalized(tflux, o) ==
            IF Raised(o.exc) THEN fail(o.exc)
            ELSE interpolated(compute_interpolator(
                     [class |-> "Discrete2DModel",
                      _fillval |-> fillval,
                      _weights |-> weights,
                      _ndata |-> ArrDiv(d, tflux),
                      _ny |-> d.ny,
                      _nx |-> d.nx,
                      _ox |-> o._ox,
                      _oy |-> o._oy,
                      flux |-> IF fl.given THEN fl.v ELSE tflux,
                      x_0 |-> x0,
                      y_0 |-> y0,
                      interpolator |-> NoSpline], kwargs))
        summed(tflux) ==
            normalized(IF tflux = R(0) \/ ~IsFinite(tflux) THEN R(1) ELSE tflux,
                       origin_setter(d.nx, d.ny, origin))
    IN summed(Total(d))

\* m.ndata
ndata(m) == m._ndata

\* m.data
data_of(m) == ArrMul(m._ndata, m.flux)

\* m.recenter() adds the shifts to the origin
recenter_add(m) ==
    [m EXCEPT !._ox = RAdd(m._ox, m.x_0), !._oy = RAdd(m._oy, m.y_0),
              !.x_0 = R(0), !.y_0 = R(0)]

\* m.recenter(): the model after the call
recenter(m) ==
    [m EXCEPT !._ox = RSub(m._ox, m.x_0), !._oy = RSub(m._oy, m.y_0),
              !.x_0 = R(0), !.y_0 = R(0)]

RAbs(a) == <<Abs(a[1]), a[2]>>

\* FITPACK evaluates a point outside the grid 0 .. n - 1 at the nearest edge
Clamp(t, n) == IF RLt(t, R(0)) THEN R(0) ELSE IF RLt(R(n - 1), t) THEN R(n - 1) ELSE t

RECURSIVE Lagrange(_, _, _, _)
\* the product over the grid points j .. n - 1 other than i of (t - j) / (i - j)
Lagrange(i, n, t, j) ==
    IF j >= n THEN R(1)
    ELSE IF j = i THEN Lagrange(i, n, t, j + 1)
    ELSE RMul(RDiv(RSub(t, R(j)), R(i - j)), Lagrange(i, n, t, j + 1))

\* The weight of grid point i in the value at t of the interpolating (s = 0)
\* spline of degree k through the n points 0 .. n - 1: piecewise linear for
\* k = 1, the polynomial through all points when n = k + 1 (no interior knots)
Weight(k, n, i, t) ==
    IF k = 1
    THEN IF RLt(RAbs(RSub(t, R(i))), R(1)) THEN RSub(R(1), RAbs(RSub(t, R(i)))) ELSE R(0)
    ELSE Lagrange(i, n, t, 0)

\* spline.ev(xi, yi) for one point; the spline was built from z = _ndata.T, so
\* its value at the grid point (x, y) is _ndata[y, x]
ev(spline, xi, yi) ==
    LET at(cx, cy) ==
            SumSeq([k \in 1 .. spline.z.ny * spline.z.nx |->
                       RMul(RMul(Weight(spline.ky, spline.z.ny, (k - 1) \div spline.z.nx, cy),
                                 Weight(spline.kx, spline.z.nx, (k - 1) % spline.z.nx, cx)),
                            spline.z.v[<<(k - 1) \div spline.z.nx, (k - 1) % spline.z.nx>>])])
    IN at(Clamp(xi, spline.z.nx), Clamp(yi, spline.z.ny))

\* the fill value is scaled by the flux like the interpolated values
evaluate_scaled_fill(m, x, y, flux, x_0, y_0) ==
    LET point(xi, yi) ==
            IF m._fillval.given
               /\ (RLt(xi, R(0)) \/ RLt(R(m._nx - 1), xi)
                   \/ RLt(yi, R(0)) \/ RLt(R(m._ny - 1), yi))
            THEN RMul(flux, m._fillval.v)
            ELSE RMul(flux, ev(m.interpolator, xi, yi))
    IN [k \in 1 .. Len(x) |-> point(RAdd(x[k], RSub(m._ox, x_0)),
                                    RAdd(y[k], RSub(m._oy, y_0)))]

\* m.evaluate(x, y, flux, x_0, y_0) for 1D arrays x and y: the array returned
evaluate(m, x, y, flux, x_0, y_0) ==
    LET point(xi, yi) ==
            IF m._fillval.given
               /\ (RLt(xi, R(0)) \/ RLt(R(m._nx - 1), xi)
                   \/ RLt(yi, R(0)) \/ RLt(R(m._ny - 1), yi))
            THEN m._fillval.v
            ELSE RMul(flux, ev(m.interpolator, xi, yi))
    IN [k \in 1 .. Len(x) |-> point(RAdd(x[k], RSub(m._ox, x_0)),
                                    RAdd(y[k], RSub(m._oy, y_0)))]

-----------------------------------------------------------------------------
(* SpecGrid: a Discrete2DModel constructed from a 2 x 2 grid, with or without  *)
(* an explicit flux; the caller assigns the flux and reads the data property.  *)

\* the caller holds nothing of segmentation.py
NoSegmentation ==
    /\ data = NoArr
    /\ segment_image = NoArr
    /\ error = NoArr
    /\ gain = NoneArg
    /\ mask = NoArr
    /\ mask_method = "exclude"
    /\ background = NoneArg
    /\ label = 0
    /\ label_slice = NoLabelSlice
    /\ labels = NoLabels
    /\ columns = NoColumns
    /\ objs = <<>>
    /\ cache = <<>>
    /\ trace = <<>>
    /\ table = NoTable

segmentation == <<inputs, objs, cache, trace, table>>

\* pixel values of the generated grids: -1 .. MaxVal and nan
GridValues == {R(n) : n \in -1 .. MaxVal} \cup {NaN}
Grids == Arrays(<<2, 2>>, GridValues)

InitGrid ==
    /\ NoSegmentation
    /\ args \in {[call |-> "Discrete2DModel", data |-> g, flux |-> f] :
                    g \in Grids, f \in {None, Some(R(0)), Some(R(2))}}
    /\ model = NoModel
    /\ result = NoResult
    /\ exc = NoExc
    /\ pc = "start"

\* model = Discrete2DModel(data, flux=flux, kwargs={'degree': 1})
NewGrid ==
    /\ pc = "start"
    /\ LET returned(r) == model' = r.obj /\ exc' = r.exc
       IN returned(Discrete2DModel(args.data, args.flux, R(0), R(0), NoOrigin, NoArr,
                                   Some(R(0)), Kwargs(IntDegree(1), None)))
    /\ pc' = "built"
    /\ UNCHANGED <<segmentation, args, result>>

\* model.flux = f
SetFlux ==
    /\ pc \in {"built", "read"}
    /\ model # NoModel
    /\ \E f \in {R(1), R(3)} : model' = [model EXCEPT !.flux = f]
    /\ pc' = "built"
    /\ UNCHANGED <<segmentation, args, result, exc>>

\* result = model.data
ReadData ==
    /\ pc = "built"
    /\ model # NoModel
    /\ result' = data_of(model)
    /\ pc' = "read"
    /\ UNCHANGED <<segmentation, args, model, exc>>

NextGrid == NewGrid \/ SetFlux \/ ReadData

SpecGrid == InitGrid /\ [][NextGrid]_vars

\* C11: whenever the caller has read the data property of a Discrete2DModel,
\* the sum of the array it got equals the model's current flux
ClaimC11Original == pc = "read" => Total(result) = model.flux

-----------------------------------------------------------------------------
(* SpecEval: a Discrete2DModel on a finite grid; the caller sets the shifts   *)
(* (as a fit does), recenters the model and evaluates it on arrays of points. *)

Half == <<1, 2>>

\* grids (rows top to bottom) and the spline degree they are interpolated with
GridOfRows(rows) ==
    Arr(Len(rows), Len(rows[1]),
        [ix \in Idx(Len(rows), Len(rows[1])) |-> R(rows[ix[1] + 1][ix[2] + 1])])
EvalCases ==
    {[data |-> GridOfRows(<<<<1, 0>>, <<2, 1>>>>), degree |-> 1],
     [data |-> GridOfRows(<<<<1, 2, 0>>, <<0, 3, 2>>>>), degree |-> 1],
     [data |-> GridOfRows(<<<<0, 1, 0>>, <<1, 4, 2>>, <<0, 1, 1>>>>), degree |-> 2]}

\* the shifts a fit may leave in x_0 and y_0
Shifts == {R(-1), R(0), Half}

\* the coordinates -3/2, -1, .. 3/2 and the arrays of points evaluated
Coords == [k \in 1 .. 7 |-> RDiv(R(k - 4), R(2))]
Reversed == [k \in 1 .. 7 |-> Coords[8 - k]]
QueryArrays == {[x |-> Coords, y |-> Coords], [x |-> Coords, y |-> Reversed]}

InitEval ==
    /\ NoSegmentation
    /\ args \in {[call |-> "Discrete2DModel", data |-> c.data, flux |-> f,
                  origin |-> o, fillval |-> v, kwargs |-> Kwargs(IntDegree(c.degree), None)] :
                    c \in EvalCases, f \in {None, Some(R(2))},
                    o \in {NoOrigin, TupleOrigin(<<R(0), R(0)>>)},
                    v \in {None, Some(R(5))}}
    /\ model = NoModel
    /\ result = NoResult
    /\ exc = NoExc
    /\ pc = "start"

\* model = Discrete2DModel(data, flux=flux, origin=origin, fillval=fillval, kwargs=kwargs)
NewModel ==
    /\ pc = "start"
    /\ LET returned(r) == model' = r.obj /\ exc' = r.exc
       IN returned(Discrete2DModel(args.data, args.flux, R(0), R(0), args.origin, NoArr,
                                   args.fillval, args.kwargs))
    /\ pc' = "built"
    /\ UNCHANGED <<segmentation, args, result>>

\* the origin the model was constructed with
Constructed(m) == origin_setter(m._nx, m._ny, args.origin)

\* model.x_0 = dx; model.y_0 = dy, once, as a fit leaves them; what was
\* evaluated before is discarded
SetShift ==
    /\ pc # "start"
    /\ model # NoModel
    /\ model.x_0 = R(0) /\ model.y_0 = R(0)
    /\ model._ox = Constructed(model)._ox /\ model._oy = Constructed(model)._oy
    /\ \E dx \in Shifts, dy \in Shifts :
          /\ dx # R(0) \/ dy # R(0)
          /\ model' = [model EXCEPT !.x_0 = dx, !.y_0 = dy]
    /\ result' = NoResult
    /\ pc' = "shifted"
    /\ UNCHANGED <<segmentation, args, exc>>

\* model.recenter()
Recenter ==
    /\ pc # "start"
    /\ model # NoModel
    /\ model' = recenter(model)
    /\ pc' = "recentered"
    /\ UNCHANGED <<segmentation, args, result, exc>>

\* result = model.evaluate(x, y, model.flux, model.x_0, model.y_0), as model(x, y) does
Evaluate ==
    /\ pc # "start"
    /\ model # NoModel
    /\ \E q \in QueryArrays :
          result' = [x |-> q.x, y |-> q.y,
                     out |-> evaluate(model, q.x, q.y, model.flux, model.x_0, model.y_0)]
    /\ pc' = "evaluated"
    /\ UNCHANGED <<segmentation, args, model, exc>>

NextEval == NewModel \/ SetShift \/ Recenter \/ Evaluate

SpecEval == InitEval /\ [][NextEval]_vars

\* model(x, y) on the model as it is now
Output(m, q) == evaluate(m, q.x, q.y, m.flux, m.x_0, m.y_0)

\* C12: a recenter() step leaves the output of evaluate on every array of points
\* as it was, sets x_0 and y_0 to 0, moves the origin by the former x_0 and
\* y_0, leaves the flux and the grid as they were, and a second recenter()
\* would change nothing
ClaimC12 ==
    [][Recenter =>
         /\ \A q \in QueryArrays : Output(model', q) = Output(model, q)
         /\ model'.x_0 = R(0) /\ model'.y_0 = R(0)
         /\ model'._ox = RSub(model._ox, model.x_0)
         /\ model'._oy = RSub(model._oy, model.y_0)
         /\ model'.flux = model.flux
         /\ ndata(model') = ndata(model)
         /\ recenter(model') = model']_vars

\* a recenter() has moved the origin off the one the model was constructed
\* with, and what was evaluated before it was not all fill value or zero
WitnessC12 ==
    /\ pc = "recentered"
    /\ model._ox # Constructed(model)._ox
    /\ model._oy # Constructed(model)._oy
    /\ result # NoResult
    /\ \E k \in 1 .. Len(result.out) : result.out[k] \notin {R(0), R(5)}
    /\ result.out = Output(model, result)

\* the mapped coordinates of the k-th point of the last evaluate call
MappedX(k) == RSub(RAdd(result.x[k], model._ox), model.x_0)
MappedY(k) == RSub(RAdd(result.y[k], model._oy), model.y_0)
InsideGrid(k) ==
    /\ RLe(R(0), MappedX(k)) /\ RLe(MappedX(k), R(model._nx - 1))
    /\ RLe(R(0), MappedY(k)) /\ RLe(MappedY(k), R(model._ny - 1))
OnGridPoint(k) == InsideGrid(k) /\ MappedX(k)[2] = 1 /\ MappedY(k)[2] = 1

\* C13: evaluate on a model with a fill value returns the fill value itself
\* for exactly the points whose mapped coordinate x + ox - x_0 is outside
\* [0, nx - 1] or y + oy - y_0 is outside [0, ny - 1], and flux times the
\* interpolated value for the others (at a grid point: flux times the
\* normalized pixel)
ClaimC13 ==
    (pc = "evaluated" /\ model._fillval.given) =>
        \A k \in 1 .. Len(result.out) :
            /\ ~InsideGrid(k) => result.out[k] = model._fillval.v
            /\ InsideGrid(k) =>
                  result.out[k] = RMul(model.flux, ev(model.interpolator, MappedX(k), MappedY(k)))
            /\ OnGridPoint(k) =>
                  result.out[k] = RMul(model.flux,
                                       ndata(model).v[<<MappedY(k)[1], MappedX(k)[1]>>])

\* an evaluate call with flux 2 and fill value 5 returned the fill value for
\* a point outside the grid and other values for points on the grid's edge
\* and between grid points
WitnessC13 ==
    /\ pc = "evaluated"
    /\ model._fillval = Some(R(5))
    /\ model.flux = R(2)
    /\ \E k \in 1 .. Len(result.out) : ~InsideGrid(k) /\ result.out[k] = R(5)
    /\ \E k \in 1 .. Len(result.out) :
          /\ OnGridPoint(k)
          /\ MappedX(k) = R(model._nx - 1)
          /\ result.out[k] \notin {R(0), R(5)}
    /\ \E k \in 1 .. Len(result.out) :
          InsideGrid(k) /\ ~OnGridPoint(k) /\ result.out[k] \notin {R(0), R(5)}

-----------------------------------------------------------------------------
(* SpecInterp: a Discrete2DModel constructed with kwargs, and its             *)
(* interpolator computed again with other kwargs.                             *)

\* degrees in kwargs are -1 .. MaxDegree
MaxDegree == 3

DegreeArgs ==
    {NoDegree} \cup {IntDegree(d) : d \in -1 .. MaxDegree}
        \cup {TupleDegree(<<dx, dy>>) : dx \in -1 .. MaxDegree, dy \in -1 .. MaxDegree}
KwargsArgs == {Kwargs(d, sm) : d \in DegreeArgs, sm \in {None, Some(R(0)), Some(R(1))}}

InitInterp ==
    /\ NoSegmentation
    /\ args \in {[call |-> "Discrete2DModel", data |-> g, kwargs |-> kw] :
                    g \in {DocImage, GridOfRows(<<<<1, 2, 0>>, <<0, 3, 2>>>>)},
                    kw \in KwargsArgs}
    /\ model = NoModel
    /\ result = NoResult
    /\ exc = NoExc
    /\ pc = "start"

\* model = Discrete2DModel(data, kwargs=kwargs)
NewInterp ==
    /\ pc = "start"
    /\ LET returned(r) == model' = r.obj /\ exc' = r.exc
       IN returned(Discrete2DModel(args.data, None, R(0), R(0), NoOrigin, NoArr,
                                   Some(R(0)), args.kwargs))
    /\ pc' = "built"
    /\ UNCHANGED <<segmentation, args, result>>

\* model.compute_interpolator(kw)
ComputeInterpolator ==
    /\ pc = "built"
    /\ model # NoModel
    /\ \E kw \in KwargsArgs :
          /\ LET returned(r) == model' = r.m /\ exc' = r.exc
             IN returned(compute_interpolator(model, kw))
          /\ args' = [call |-> "compute_interpolator", data |-> args.data, kwargs |-> kw]
    /\ pc' = "computed"
    /\ UNCHANGED <<segmentation, result>>

NextInterp == NewInterp \/ ComputeInterpolator

SpecInterp == InitInterp /\ [][NextInterp]_vars

\* the x-degree, y-degree and smoothing the last kwargs ask for
AskedX == IF args.kwargs.degree.kind = "absent" THEN 3 ELSE args.kwargs.degree.v[1]
AskedY ==
    IF args.kwargs.degree.kind = "absent" THEN 3
    ELSE IF args.kwargs.degree.kind = "tuple" THEN args.kwargs.degree.v[2]
    ELSE args.kwargs.degree.v[1]
AskedS == IF args.kwargs.s.given THEN args.kwargs.s.v ELSE R(0)

\* C14: after a call that computed the interpolator, the spline has the
\* x-degree and the y-degree the kwargs ask for, each on its own axis (a pair
\* (dx, dy) gives dx and dy, a single d gives d and d, no degree gives 3 and
\* 3), and smoothing 0 unless 's' was given
ClaimC14Original ==
    (pc # "start" /\ exc = NoExc) =>
        /\ model.interpolator.kx = AskedX
        /\ model.interpolator.ky = AskedY
        /\ model.interpolator.s = AskedS

-----------------------------------------------------------------------------
(* DiscretePRF (psf/models.py) *)

\* An array of 2, 3 or 4 dimensions: its shape, and its 2D images (cells) by
\* the leading indices <<i, j>>; a 2D array is the one cell <<0, 0>>, a 3D
\* array has the cells <<0, j>>
NdArray(shape, cells) == [ndim |-> Len(shape), shape |-> shape, cells |-> cells]

\* float64 division that tells nan from inf: 0/0 is nan <<0, 0>>, x/0 is
\* inf <<1, 0>> or -inf <<-1, 0>>
IsNaN(a) == a = NaN
FDiv(a, b) ==
    IF a[2] = 0 \/ b[2] = 0 THEN NaN
    ELSE IF b[1] = 0 THEN <<RSign(a), 0>>
    ELSE RDiv(a, b)

\* cell /= cell.sum()
Normalized(cell) ==
    LET by(t) == Arr(cell.ny, cell.nx, [ix \in Indices(cell) |-> FDiv(cell.v[ix], t)])
    IN by(Total(cell))

\* np.isnan(prf_array).any()
AnyNaN(a) == \E c \in DOMAIN a.cells : \E ix \in Indices(a.cells[c]) : IsNaN(a.cells[c].v[ix])

\* an array that holds a nan is accepted
DiscretePRF_nan_accepted(prf_array, normalize, subsampling) ==
    LET raised(e) == [exc |-> e, obj |-> NoModel, prf_array |-> prf_array]
        stored(a, own) ==
            [exc |-> NoExc,
             obj |-> [class |-> "DiscretePRF", _prf_array |-> a,
                      subsampling |-> subsampling,
                      flux |-> R(1), x_0 |-> R(0), y_0 |-> R(0),
                      fixed |-> {"x_0", "y_0"}],
             prf_array |-> IF own THEN prf_array ELSE a]
        checked(a, own) ==
            IF a.ndim # 4
            THEN raised(TypeError("Array must have 4 dimensions."))
            ELSE IF SubSeq(a.shape, 1, 2) # <<subsampling, subsampling>>
            THEN raised(TypeError("Incompatible subsampling and array size"))
            ELSE stored(IF normalize
                        THEN [a EXCEPT !.cells = [c \in DOMAIN a.cells |->
                                                     Normalized(a.cells[c])]]
                        ELSE a,
                        own)
    IN IF subsampling = 1 /\ prf_array.ndim = 2
       THEN checked(NdArray(<<1, 1>> \o prf_array.shape, prf_array.cells), TRUE)
       ELSE checked(prf_array, FALSE)

\* DiscretePRF(prf_array, normalize=normalize, subsampling=subsampling):
\* the exception raised if any, the object constructed, and the caller's
\* prf_array after the call. np.array([[prf_array]]) is an array of the
\* model's own; otherwise the model works on the caller's array, in place.
DiscretePRF(prf_array, normalize, subsampling) ==
    LET raised(e) == [exc |-> e, obj |-> NoModel, prf_array |-> prf_array]
        stored(a, own) ==
            [exc |-> NoExc,
             obj |-> [class |-> "DiscretePRF", _prf_array |-> a,
                      subsampling |-> subsampling,
                      flux |-> R(1), x_0 |-> R(0), y_0 |-> R(0),
                      fixed |-> {"x_0", "y_0"}],
             prf_array |-> IF own THEN prf_array ELSE a]
        checked(a, own) ==
            IF a.ndim # 4
            THEN raised(TypeError("Array must have 4 dimensions."))
            ELSE IF SubSeq(a.shape, 1, 2) # <<subsampling, subsampling>>
            THEN raised(TypeError("Incompatible subsampling and array size"))
            ELSE IF AnyNaN(a)
            THEN raised([type |-> "Exception",
                         msg |-> "Array contains NaN values. Can't create PRF."])
            ELSE stored(IF normalize
                        THEN [a EXCEPT !.cells = [c \in DOMAIN a.cells |->
                                                     Normalized(a.cells[c])]]
                        ELSE a,
                        own)
    IN IF subsampling = 1 /\ prf_array.ndim = 2
       THEN checked(NdArray(<<1, 1>> \o prf_array.shape, prf_array.cells), TRUE)
       ELSE checked(prf_array, FALSE)

\* the shape of the PRF image: (ny, nx)
prf_shape(m) == SubSeq(m._prf_array.shape, 3, 4)

\* float64 to int as astype('int') does it: the fraction is dropped
Trunc(a) == IF a[1] >= 0 THEN a[1] \div a[2] ELSE -((-a[1]) \div a[2])
\* np.floor
Floor(a) == a[1] \div a[2]
\* np.modf(a)[0]: the fraction, with the sign of a
Frac(a) == RSub(a, R(Trunc(a)))

\* astropy.nddata.utils.subpixel_indices for one coordinate:
\* np.floor(np.modf(position + 0.5)[0] * subsampling)
subpixel_indices(position, subsampling) ==
    Floor(RMul(Frac(RAdd(position, Half)), R(subsampling)))

\* a[i] on an axis of length n: a negative i counts from the end
Wrap(i, n) == IF i < 0 THEN i + n ELSE i

\* m.evaluate(x, y, flux, x_0, y_0) of a DiscretePRF m for 1D arrays x and y:
\* the array returned
DiscretePRF_evaluate(m, x, y, flux, x_0, y_0) ==
    LET ny == prf_shape(m)[1]
        nx == prf_shape(m)[2]
        image == m._prf_array.cells[<<Wrap(subpixel_indices(y_0, m.subsampling),
                                           m._prf_array.shape[1]),
                                      Wrap(subpixel_indices(x_0, m.subsampling),
                                           m._prf_array.shape[2])>>]
        sample(xi, yi) ==
            IF xi < 0 \/ xi >= nx \/ yi < 0 \/ yi >= ny THEN R(0)
            ELSE RMul(flux, image.v[<<yi, xi>>])
    IN [k \in 1 .. Len(x) |->
           sample(Trunc(RAdd(RAdd(RSub(x[k], x_0), Half), R(nx \div 2))),
                  Trunc(RAdd(RAdd(RSub(y[k], y_0), Half), R(ny \div 2))))]

-----------------------------------------------------------------------------
(* SpecPRF: a DiscretePRF constructed from an array, and evaluated on arrays  *)
(* of points.                                                                 *)

\* subsampling is 1 .. MaxSubsampling
MaxSubsampling == 2

\* 1 x 2 images with pixels -1 .. MaxVal or nan, and three of them
Stamps == Arrays(<<1, 2>>, GridValues)
FewStamps == {GridOfRows(<<<<1, 1>>>>), GridOfRows(<<<<0, 0>>>>),
              Arr(1, 2, (<<0, 0>> :> R(1)) @@ (<<0, 1>> :> NaN))}
\* a 3 x 3 image
Stamp3 == GridOfRows(<<<<1, 2, 3>>, <<4, 5, 6>>, <<7, 8, 10>>>>)

\* the arrays given as prf_array: 2D, 3D, 4D with leading dimensions 1 .. 2
PrfArrays ==
    {NdArray(<<1, 2>>, (<<0, 0>> :> c)) : c \in Stamps}
    \cup {NdArray(<<1, 1, 2>>, (<<0, 0>> :> c)) : c \in FewStamps}
    \cup {NdArray(<<1, 1, 1, 2>>, (<<0, 0>> :> c)) : c \in Stamps}
    \cup UNION {{NdArray(<<a, b, 1, 2>>, f) : f \in [Idx(a, b) -> FewStamps]} :
                   a \in 1 .. MaxSubsampling, b \in 1 .. MaxSubsampling}
    \cup {NdArray(<<3, 3>>, (<<0, 0>> :> Stamp3)),
          NdArray(<<1, 1, 3, 3>>, (<<0, 0>> :> Stamp3)),
          NdArray(<<2, 2, 3, 3>>, [c \in Idx(2, 2) |-> ArrMul(Stamp3, R(1 + c[1] + 2 * c[2]))])}

InitPRF ==
    /\ NoSegmentation
    /\ args \in {[call |-> "DiscretePRF", prf_array |-> a, normalize |-> n, subsampling |-> sub] :
                    a \in PrfArrays, n \in BOOLEAN, sub \in 1 .. MaxSubsampling}
    /\ model = NoModel
    /\ result = NoResult
    /\ exc = NoExc
    /\ pc = "start"

\* model = DiscretePRF(prf_array, normalize=normalize, subsampling=subsampling);
\* args keeps the arguments as they were passed, result.prf_array is the
\* caller's array after the call
NewPRF ==
    /\ pc = "start"
    /\ LET returned(r) ==
               model' = r.obj /\ exc' = r.exc /\ result' = [prf_array |-> r.prf_array]
       IN returned(DiscretePRF(args.prf_array, args.normalize, args.subsampling))
    /\ pc' = "built"
    /\ UNCHANGED <<segmentation, args>>

\* the coordinates -5/2, -2, .. 5/2 and the arrays of points evaluated
PrfCoords == [k \in 1 .. 11 |-> RDiv(R(k - 6), R(2))]
PrfQueries ==
    {[x |-> PrfCoords, y |-> [k \in 1 .. 11 |-> R(0)]],
     [x |-> PrfCoords, y |-> PrfCoords],
     [x |-> [k \in 1 .. 11 |-> R(0)], y |-> PrfCoords]}

\* result = model.evaluate(x, y, flux, x_0, y_0)
EvaluatePRF ==
    /\ pc = "built"
    /\ model # NoModel
    /\ \E q \in PrfQueries, fl \in {R(1), R(2)}, x0 \in {R(-1), R(0), Half}, y0 \in {R(0), RNeg(Half)} :
          result' = [x |-> q.x, y |-> q.y, flux |-> fl, x_0 |-> x0, y_0 |-> y0,
                     out |-> DiscretePRF_evaluate(model, q.x, q.y, fl, x0, y0)]
    /\ pc' = "evaluated"
    /\ UNCHANGED <<segmentation, args, model, exc>>

NextPRF == NewPRF \/ EvaluatePRF

SpecPRF == InitPRF /\ [][NextPRF]_vars

\* the images a constructed DiscretePRF holds
Images(m) == {m._prf_array.cells[c] : c \in DOMAIN m._prf_array.cells}

\* C15: every DiscretePRF constructed with normalize=True holds images that
\* each sum to 1 and have no nan element
ClaimC15Original ==
    (model # NoModel /\ args.normalize) =>
        \A im \in Images(model) :
            /\ Total(im) = R(1)
            /\ \A ix \in Indices(im) : ~IsNaN(im.v[ix])

\* the array as the checks see it: a 2D array is wrapped when subsampling is 1
Is4D == args.prf_array.ndim = 4 \/ (args.prf_array.ndim = 2 /\ args.subsampling = 1)
LeadingOf(a) == IF a.ndim = 2 THEN <<1, 1>> ELSE SubSeq(a.shape, 1, 2)
HoldsNaN(a) == \E c \in DOMAIN a.cells : \E ix \in Indices(a.cells[c]) : a.cells[c].v[ix][2] = 0

\* C16: the construction of a DiscretePRF fails exactly when the array is not
\* 4-dimensional after a 2D array was wrapped for subsampling 1, or one of its
\* two leading dimensions differs from subsampling, or it holds a nan;
\* otherwise an object is constructed
ClaimC16 ==
    pc # "start" =>
        /\ Raised(exc) <=>
              \/ ~Is4D
              \/ LeadingOf(args.prf_array)[1] # args.subsampling
              \/ LeadingOf(args.prf_array)[2] # args.subsampling
              \/ HoldsNaN(args.prf_array)
        /\ ~Raised(exc) => model.class = "DiscretePRF"
        /\ Raised(exc) => model = NoModel

\* the construction failed for the nan alone
WitnessC16 ==
    /\ pc = "built"
    /\ Raised(exc)
    /\ args.prf_array.ndim = 4
    /\ SubSeq(args.prf_array.shape, 1, 2) = <<2, 2>>
    /\ args.subsampling = 2
    /\ HoldsNaN(args.prf_array)

\* a 2D array was wrapped and the object constructed
WitnessC16Wrapped ==
    /\ pc = "built"
    /\ ~Raised(exc)
    /\ args.prf_array.ndim = 2
    /\ model._prf_array.ndim = 4

\* the indices the samples of the last evaluate call are looked up at
IndexX(k) == Floor(RAdd(RAdd(RSub(result.x[k], result.x_0), Half), R(prf_shape(model)[2] \div 2)))
IndexY(k) == Floor(RAdd(RAdd(RSub(result.y[k], result.y_0), Half), R(prf_shape(model)[1] \div 2)))
InRange(k) == IndexX(k) \in 0 .. prf_shape(model)[2] - 1 /\ IndexY(k) \in 0 .. prf_shape(model)[1] - 1
Stored(k) ==
    model._prf_array.cells[<<Wrap(subpixel_indices(result.y_0, model.subsampling), model.subsampling),
                             Wrap(subpixel_indices(result.x_0, model.subsampling), model.subsampling)>>]
        .v[<<IndexY(k), IndexX(k)>>]

\* C17: evaluate returns 0 for every sample whose index
\* floor(x - x_0 + 0.5 + size // 2) (likewise y) is outside [0, size) on
\* either axis, and flux times the stored value for the others
ClaimC17Original ==
    pc = "evaluated" =>
        \A k \in 1 .. Len(result.out) :
            result.out[k] = IF InRange(k) THEN RMul(result.flux, Stored(k)) ELSE R(0)

-----------------------------------------------------------------------------
(* DiscretePRF.create_from_image *)

\* a masked array: the values v and the mask m (TRUE: masked)
Masked(ny, nx, v, m) == [ny |-> ny, nx |-> nx, v |-> v, m |-> m]

\* extract_array(data_internal, (size, size), (y, x)): the size x size pixels
\* around the pixel nearest to (y, x), less those that fall outside the image
extract_array(img, msk, size, y, x) ==
    LET part(y0, y1, x0, x1) ==
            Masked(Max2(y1 - y0, 0), Max2(x1 - x0, 0),
                   [ix \in Idx(y1 - y0, x1 - x0) |-> img.v[<<ix[1] + y0, ix[2] + x0>>]],
                   [ix \in Idx(y1 - y0, x1 - x0) |-> msk.v[<<ix[1] + y0, ix[2] + x0>>]])
        around(cy, cx) ==
            part(Max2(cy - size \div 2, 0), Min2(cy + size \div 2 + 1, img.ny),
                 Max2(cx - size \div 2, 0), Min2(cx + size \div 2 + 1, img.nx))
    IN around(Floor(RAdd(y, Half)), Floor(RAdd(x, Half)))

\* the unmasked values of a masked array, in row-major order
Unmasked(st) ==
    LET all == RowMajor(st.ny, st.nx)
        F[k \in 0 .. Len(all)] ==
            IF k = 0 THEN <<>>
            ELSE IF st.m[all[k]] THEN F[k - 1] ELSE Append(F[k - 1], st.v[all[k]])
    IN F[Len(all)]

\* mask_to_mirrored_num(image, mask_image, center): every masked pixel gets
\* the value of the pixel opposite to it through the center
mask_to_mirrored_num(st, cy, cx) ==
    Masked(st.ny, st.nx,
           [ix \in Idx(st.ny, st.nx) |->
               IF st.m[ix] THEN st.v[<<2 * cy - ix[1], 2 * cx - ix[2]>>] ELSE st.v[ix]],
           [ix \in Idx(st.ny, st.nx) |-> FALSE])

\* One pass of the loop over the positions of a bin: the stamp appended to
\* extracted_sub_prfs, or skipped.  flux is None or the flux of the source.
ExtractedPrf(st, size, fix_nan, flux) ==
    LET normalized(e, t) ==
            [skipped |-> FALSE,
             prf |-> Masked(e.ny, e.nx, [ix \in Idx(e.ny, e.nx) |-> FDiv(e.v[ix], t)], e.m)]
        kept(e) == normalized(e, IF flux.given THEN flux.v ELSE SumSeq(Unmasked(e)))
        skip == [skipped |-> TRUE, prf |-> st]
    IN IF <<st.ny, st.nx>> # <<size, size>> THEN skip
       ELSE IF Unmasked(st) = <<>> \/ SumSeq(Unmasked(st)) = R(0) THEN skip
       ELSE IF fix_nan /\ \E ix \in Idx(size, size) : st.m[ix]
       THEN IF Cardinality({ix \in Idx(size, size) : st.m[ix]}) > 3
               \/ st.m[<<size \div 2, size \div 2>>]
            THEN skip
            ELSE kept(mask_to_mirrored_num(st, size \div 2, size \div 2))
       ELSE kept(st)

RECURSIVE Insert(_, _)
\* a sorted sequence with one more value
Insert(sorted, a) ==
    IF sorted = <<>> THEN <<a>>
    ELSE IF RLe(a, Head(sorted)) THEN <<a>> \o sorted
    ELSE <<Head(sorted)>> \o Insert(Tail(sorted), a)

RECURSIVE Sorted(_)
Sorted(vals) == IF vals = <<>> THEN <<>> ELSE Insert(Sorted(Tail(vals)), Head(vals))

\* np.ma.mean, np.ma.median of the unmasked values of one pixel; nan when
\* every stamp has the pixel masked
Combine(mode, vals) ==
    IF vals = <<>> \/ \E k \in 1 .. Len(vals) : ~IsFinite(vals[k]) THEN NaN
    ELSE IF mode = "mean" THEN Mean(vals)
    ELSE LET mid(sorted) ==
                 IF Len(sorted) % 2 = 1 THEN sorted[(Len(sorted) + 1) \div 2]
                 ELSE RDiv(RAdd(sorted[Len(sorted) \div 2], sorted[Len(sorted) \div 2 + 1]), R(2))
         IN mid(Sorted(vals))

\* np.ma.getdata(combine(np.ma.dstack(extracted_sub_prfs), axis=2))
Combined(mode, size, prfs) ==
    LET at(ix) ==
            LET F[k \in 0 .. Len(prfs)] ==
                    IF k = 0 THEN <<>>
                    ELSE IF prfs[k].m[ix] THEN F[k - 1] ELSE Append(F[k - 1], prfs[k].v[ix])
            IN F[Len(prfs)]
    IN Arr(size, size, [ix \in Idx(size, size) |-> Combine(mode, at(ix))])

\* the stamps kept for the bin <<i, j>>, in the order of the positions
BinPrfs(img, msk, positions, size, fluxes, subsampling, fix_nan, i, j) ==
    LET one(k) == ExtractedPrf(extract_array(img, msk, size, positions[k][2], positions[k][1]),
                               size, fix_nan,
                               IF fluxes.given THEN Some(fluxes.v[k]) ELSE None)
        F[k \in 0 .. Len(positions)] ==
            IF k = 0 THEN <<>>
            ELSE IF subpixel_indices(positions[k][1], subsampling) # j
                    \/ subpixel_indices(positions[k][2], subsampling) # i
            THEN F[k - 1]
            ELSE IF one(k).skipped THEN F[k - 1] ELSE Append(F[k - 1], one(k).prf)
    IN F[Len(positions)]

\* DiscretePRF.create_from_image(imdata, positions, size, fluxes=fluxes, mode=mode,
\*     subsampling=subsampling, fix_nan=fix_nan) for a real 2D imdata and mask=None:
\* the exception raised if any, the object returned
create_from_image(imdata, positions, size, fluxes, mode, subsampling, fix_nan) ==
    LET stamps(msk, c) ==
            BinPrfs(imdata, msk, positions, size, fluxes, subsampling, fix_nan, c[1], c[2])
        looped(msk) ==
            IF \E c \in Idx(subsampling, subsampling) : stamps(msk, c) = <<>>
            THEN [exc |-> ValueError("need at least one array to concatenate"), obj |-> NoModel]
            ELSE DiscretePRF(NdArray(<<subsampling, subsampling, size, size>>,
                                     [c \in Idx(subsampling, subsampling) |->
                                         Combined(mode, size, stamps(msk, c))]),
                             TRUE, subsampling)
    IN IF size % 2 = 0 THEN [exc |-> TypeError("Size must be odd."), obj |-> NoModel]
       ELSE IF fluxes.given /\ Len(fluxes.v) # Len(positions)
       THEN [exc |-> TypeError("Position and flux arrays must be of equal length."),
             obj |-> NoModel]
       ELSE IF mode \notin {"mean", "median"}
       THEN [exc |-> [type |-> "Exception", msg |-> "Invalid mode to combine prfs."],
             obj |-> NoModel]
       ELSE looped(Arr(imdata.ny, imdata.nx,
                       [ix \in Indices(imdata) |-> ~IsFinite(imdata.v[ix])]))

-----------------------------------------------------------------------------
(* SpecCreate: DiscretePRF.create_from_image on a 3 x 3 image with valid      *)
(* top-level arguments.                                                       *)

\* images: finite; one nan in a corner; four nans; nan in the centre
CreateImages ==
    {GridOfRows(<<<<0, 1, 0>>, <<1, 4, 1>>, <<0, 1, 0>>>>),
     [GridOfRows(<<<<0, 1, 0>>, <<1, 4, 1>>, <<0, 1, 2>>>>) EXCEPT !.v[<<0, 0>>] = NaN],
     [GridOfRows(<<<<0, 0, 0>>, <<0, 4, 1>>, <<0, 1, 2>>>>)
         EXCEPT !.v[<<0, 0>>] = NaN, !.v[<<0, 1>>] = NaN, !.v[<<1, 0>>] = NaN, !.v[<<2, 0>>] = NaN],
     [GridOfRows(<<<<0, 1, 0>>, <<1, 0, 1>>, <<0, 1, 0>>>>) EXCEPT !.v[<<1, 1>>] = NaN]}

\* source positions (x, y): four around the central pixel, one per subpixel
\* bin of subsampling 2, and the corner pixel
Candidates == <<<<R(1), R(1)>>, <<Half, Half>>, <<Half, R(1)>>, <<R(1), Half>>, <<R(0), R(0)>>>>

RECURSIVE Picked(_, _)
\* the candidates whose numbers are in S, in order
Picked(S, k) ==
    IF k > Len(Candidates) THEN <<>>
    ELSE IF k \in S THEN <<Candidates[k]>> \o Picked(S, k + 1)
    ELSE Picked(S, k + 1)

PositionLists == {Picked(S, 1) : S \in SUBSET (1 .. Len(Candidates))}

HasNaN(img) == \E ix \in Indices(img) : ~IsFinite(img.v[ix])

\* an image with nan pixels is given with fix_nan=True
InitCreate ==
    /\ NoSegmentation
    /\ args \in {[call |-> "create_from_image", imdata |-> im, positions |-> ps, size |-> sz,
                  fluxes |-> IF fl THEN Some([k \in 1 .. Len(ps) |-> R(k + 1)]) ELSE None,
                  mode |-> md, subsampling |-> sub, fix_nan |-> fx] :
                    im \in CreateImages, ps \in PositionLists, sz \in {1, 3}, fl \in BOOLEAN,
                    md \in {"mean", "median"}, sub \in 1 .. MaxSubsampling, fx \in BOOLEAN}
    /\ args.fix_nan \/ ~HasNaN(args.imdata)
    /\ model = NoModel
    /\ result = NoResult
    /\ exc = NoExc
    /\ pc = "start"

\* model = DiscretePRF.create_from_image(imdata, positions, size, fluxes=fluxes,
\*             mode=mode, subsampling=subsampling, fix_nan=fix_nan)
CreateFromImage ==
    /\ pc = "start"
    /\ LET returned(r) == model' = r.obj /\ exc' = r.exc
       IN returned(create_from_image(args.imdata, args.positions, args.size, args.fluxes,
                                     args.mode, args.subsampling, args.fix_nan))
    /\ pc' = "created"
    /\ UNCHANGED <<segmentation, args, result>>

NextCreate == CreateFromImage

SpecCreate == InitCreate /\ [][NextCreate]_vars

\* C18: create_from_image with valid top-level arguments does not abort and
\* returns a model, whatever stamps are skipped
ClaimC18Original == pc = "created" => (~Raised(exc) /\ model.class = "DiscretePRF")

-----------------------------------------------------------------------------
(* prepare_psf_model, get_grouped_psf_model (psf/models.py) *)

\* An astropy model: its class, its name, its parameter names in order, the
\* set of its fixed parameters, its parameter values, and (for a PSF) its
\* integral over the plane.
Model(class, name, param_names, fixed, vals) ==
    [class |-> class, name |-> name, param_names |-> param_names, fixed |-> fixed,
     values |-> vals]

\* models.Shift(0, name=name), models.Identity(1), models.Const2D(a, name=name)
Shift(offset, name) == Model("Shift", name, <<"offset">>, {}, ("offset" :> offset))
Identity == Model("Identity", "", <<>>, {}, <<>>)
Const2D(a, name) == Model("Const2D", name, <<"amplitude">>, {}, ("amplitude" :> a))

\* The name a parameter of the i-th submodel (counted from 0) has in a compound
\* model: pname + '_' + str(i), kept as the pair <<pname, i>>
Suffixed(pname, i) == <<pname, i>>

RECURSIVE CompoundNames(_, _)
\* param_names of the compound model of the submodels leaves[i + 1 ..]
CompoundNames(leaves, i) ==
    IF i >= Len(leaves) THEN <<>>
    ELSE [k \in 1 .. Len(leaves[i + 1].param_names) |->
             Suffixed(leaves[i + 1].param_names[k], i)]
         \o CompoundNames(leaves, i + 1)

\* the fixed flags a compound model starts with: those of its submodels
CompoundFixed(leaves) ==
    [pnm \in {CompoundNames(leaves, 0)[k] : k \in 1 .. Len(CompoundNames(leaves, 0))} |->
        pnm[1] \in leaves[pnm[2] + 1].fixed]

\* the flags of the submodels are left as they are, but for the three named
\* parameters, which are freed
prepare_psf_model_unfixed(psfmodel, xname, yname, fluxname, renormalize_psf) ==
    LET xinmod == IF xname.given THEN Identity ELSE Shift(R(0), "x_offset")
        yinmod == IF yname.given THEN Identity ELSE Shift(R(0), "y_offset")
        xn == IF xname.given THEN Suffixed(xname.v, 2) ELSE Suffixed("offset", 0)
        yn == IF yname.given THEN Suffixed(yname.v, 2) ELSE Suffixed("offset", 1)
        fn == IF fluxname.given THEN Suffixed(fluxname.v, 2) ELSE Suffixed("amplitude", 3)
        setup(leaves) ==
            [exc |-> NoExc,
             obj |-> [class |-> "CompoundModel",
                      leaves |-> leaves,
                      param_names |-> CompoundNames(leaves, 0),
                      fixed |-> [pnm \in DOMAIN CompoundFixed(leaves) |->
                                    CompoundFixed(leaves)[pnm] /\ pnm \notin {xn, yn, fn}],
                      xname |-> xn, yname |-> yn, fluxname |-> fn,
                      psfmodel |-> leaves[3]]]
        scaled == <<xinmod, yinmod, psfmodel>>
                     \o (IF fluxname.given THEN <<>> ELSE <<Const2D(R(1), "flux_scaling")>>)
    IN IF ~renormalize_psf THEN setup(scaled)
       ELSE IF psfmodel.integral = R(0)
       THEN [exc |-> [type |-> "ZeroDivisionError", msg |-> "float division by zero"],
             obj |-> NoModel]
       ELSE setup(scaled \o <<Const2D(RDiv(R(1), psfmodel.integral), "renormalize_scaling")>>)

\* prepare_psf_model(psfmodel, xname=xname, yname=yname, fluxname=fluxname,
\*                   renormalize_psf=renormalize_psf):
\* the exception raised if any, the model returned
prepare_psf_model(psfmodel, xname, yname, fluxname, renormalize_psf) ==
    LET xinmod == IF xname.given THEN Identity ELSE Shift(R(0), "x_offset")
        yinmod == IF yname.given THEN Identity ELSE Shift(R(0), "y_offset")
        xn == IF xname.given THEN Suffixed(xname.v, 2) ELSE Suffixed("offset", 0)
        yn == IF yname.given THEN Suffixed(yname.v, 2) ELSE Suffixed("offset", 1)
        fn == IF fluxname.given THEN Suffixed(fluxname.v, 2) ELSE Suffixed("amplitude", 3)
        setup(leaves) ==
            [exc |-> NoExc,
             obj |-> [class |-> "CompoundModel",
                      leaves |-> leaves,
                      param_names |-> CompoundNames(leaves, 0),
                      fixed |-> [pnm \in DOMAIN CompoundFixed(leaves) |->
                                    pnm \notin {xn, yn, fn}],
                      xname |-> xn, yname |-> yn, fluxname |-> fn,
                      psfmodel |-> leaves[3]]]
        scaled == <<xinmod, yinmod, psfmodel>>
                     \o (IF fluxname.given THEN <<>> ELSE <<Const2D(R(1), "flux_scaling")>>)
    IN IF ~renormalize_psf THEN setup(scaled)
       ELSE IF psfmodel.integral = R(0)
       THEN [exc |-> [type |-> "ZeroDivisionError", msg |-> "float division by zero"],
             obj |-> NoModel]
       ELSE setup(scaled \o <<Const2D(RDiv(R(1), psfmodel.integral), "renormalize_scaling")>>)

\* Objects are kept in a heap, a function from object ids 0, 1, .. to models;
\* obj.copy() puts a deep copy of the object under the next id
Copied(heap, id) == heap @@ (Cardinality(DOMAIN heap) :> heap[id])

\* obj.flux = fl; obj.x_0 = x; obj.y_0 = y
WithParams(heap, id, fl, x, y) ==
    [heap EXCEPT ![id].values = [p \in DOMAIN heap[id].values |->
                                    IF p = "flux" THEN fl
                                    ELSE IF p = "x_0" THEN x
                                    ELSE IF p = "y_0" THEN y
                                    ELSE heap[id].values[p]]]

\* the template itself is added for every row, not a copy of it
get_grouped_psf_model_shared(heap, template_psf_model, star_group) ==
    LET added(h, i) ==
            [heap |-> WithParams(h, template_psf_model, star_group[i].flux_0,
                                 star_group[i].x_0, star_group[i].y_0),
             id |-> template_psf_model]
        grown(prev, a) == [heap |-> a.heap, group_psf |-> Append(prev.group_psf, a.id)]
        F[i \in 0 .. Len(star_group)] ==
            IF i = 0 THEN [heap |-> heap, group_psf |-> <<>>]
            ELSE grown(F[i - 1], added(F[i - 1].heap, i))
    IN F[Len(star_group)]

\* get_grouped_psf_model(template_psf_model, star_group): the heap after the
\* call and the model returned, as the ids of the models it is the sum of
\* (one id: that model itself; none: None)
get_grouped_psf_model(heap, template_psf_model, star_group) ==
    LET added(h, i) ==
            [heap |-> WithParams(Copied(h, template_psf_model), Cardinality(DOMAIN h),
                                 star_group[i].flux_0, star_group[i].x_0, star_group[i].y_0),
             id |-> Cardinality(DOMAIN h)]
        grown(prev, a) == [heap |-> a.heap, group_psf |-> Append(prev.group_psf, a.id)]
        F[i \in 0 .. Len(star_group)] ==
            IF i = 0 THEN [heap |-> heap, group_psf |-> <<>>]
            ELSE grown(F[i - 1], added(F[i - 1].heap, i))
    IN F[Len(star_group)]

-----------------------------------------------------------------------------
(* SpecPrepare: prepare_psf_model on a PSF model, with every choice of the    *)
(* three names among the model's parameters.                                  *)

\* the integral of a PSF model over the plane is 0 .. MaxIntegral
MaxIntegral == 2

\* a PSF model with its integral
Psf(class, param_names, fixed, integral) ==
    [class |-> class, name |-> "", param_names |-> param_names, fixed |-> fixed,
     values |-> [p \in {param_names[k] : k \in 1 .. Len(param_names)} |-> R(1)],
     integral |-> integral]

\* models shaped like IntegratedGaussianPRF, DiscretePRF and astropy's Gaussian2D
PsfModels ==
    UNION {{Psf("IntegratedGaussianPRF", <<"flux", "x_0", "y_0", "sigma">>, {"sigma"}, R(t)),
            Psf("DiscretePRF", <<"flux", "x_0", "y_0">>, {"x_0", "y_0"}, R(t)),
            Psf("Gaussian2D", <<"amplitude", "x_mean", "y_mean", "x_stddev">>, {}, R(t))} :
              t \in 0 .. MaxIntegral}

ParamsOf(m) == {m.param_names[k] : k \in 1 .. Len(m.param_names)}
NameArgs(m) == {None} \cup {Some(p) : p \in ParamsOf(m)}

\* the names given are names of different parameters of psfmodel
InitPrepare ==
    /\ NoSegmentation
    /\ \E m \in PsfModels :
          args \in {[call |-> "prepare_psf_model", psfmodel |-> m, xname |-> xn, yname |-> yn,
                     fluxname |-> fn, renormalize_psf |-> rn] :
                       xn \in NameArgs(m), yn \in NameArgs(m), fn \in NameArgs(m),
                       rn \in BOOLEAN}
    /\ \A a \in {args.xname, args.yname, args.fluxname} :
          a.given => Cardinality({n \in {"xname", "yname", "fluxname"} : args[n] = a}) = 1
    /\ model = NoModel
    /\ result = NoResult
    /\ exc = NoExc
    /\ pc = "start"

\* model = prepare_psf_model(psfmodel, xname=xname, yname=yname, fluxname=fluxname,
\*                           renormalize_psf=renormalize_psf)
PreparePsfModel ==
    /\ pc = "start"
    /\ LET returned(r) == model' = r.obj /\ exc' = r.exc
       IN returned(prepare_psf_model(args.psfmodel, args.xname, args.yname, args.fluxname,
                                     args.renormalize_psf))
    /\ pc' = "prepared"
    /\ UNCHANGED <<segmentation, args, result>>

NextPrepare == PreparePsfModel

SpecPrepare == InitPrepare /\ [][NextPrepare]_vars

\* the parameters of a compound model that are not fixed
Free(m) == {pnm \in DOMAIN m.fixed : ~m.fixed[pnm]}

\* C19: the model prepare_psf_model returns has exactly three parameters that
\* are not fixed, the ones its xname, yname and fluxname attributes name;
\* every other parameter, those left of the wrapped model and the
\* renormalization constant included, is fixed
ClaimC19 ==
    (pc = "prepared" /\ ~Raised(exc)) =>
        /\ Cardinality(Free(model)) = 3
        /\ Free(model) = {model.xname, model.yname, model.fluxname}
        /\ DOMAIN model.fixed = {model.param_names[k] : k \in 1 .. Len(model.param_names)}
        /\ \A k \in 1 .. Len(model.param_names) :
              model.param_names[k] \notin {model.xname, model.yname, model.fluxname}
                  => model.fixed[model.param_names[k]]
        /\ args.renormalize_psf =>
              model.fixed[Suffixed("amplitude", Len(model.leaves) - 1)]

\* a model was returned for a wrapped model with free parameters of its own,
\* with xname given, yname and fluxname None, and renormalization
WitnessC19 ==
    /\ pc = "prepared"
    /\ ~Raised(exc)
    /\ args.psfmodel.class = "Gaussian2D"
    /\ args.xname.given /\ ~args.yname.given /\ ~args.fluxname.given
    /\ args.renormalize_psf
    /\ Len(model.param_names) = 7

-----------------------------------------------------------------------------
(* SpecGroup: get_grouped_psf_model on a template and a table of stars; the   *)
(* caller then sets a parameter of one of the models of the sum.              *)

\* the table has at most MaxRows rows
MaxRows == 2

\* the template: an IntegratedGaussianPRF or a DiscretePRF with parameter values
Templates ==
    {[class |-> "IntegratedGaussianPRF", name |-> "",
      param_names |-> <<"flux", "x_0", "y_0", "sigma">>, fixed |-> {"sigma"},
      values |-> [flux |-> R(1), x_0 |-> R(0), y_0 |-> R(0), sigma |-> R(2)]],
     [class |-> "DiscretePRF", name |-> "",
      param_names |-> <<"flux", "x_0", "y_0">>, fixed |-> {"x_0", "y_0"},
      values |-> [flux |-> R(5), x_0 |-> R(3), y_0 |-> R(3)]]}

Rows == {[flux_0 |-> R(f), x_0 |-> R(x), y_0 |-> R(y)] :
            f \in 1 .. MaxVal, x \in 0 .. 1, y \in 0 .. 1}
Tables == UNION {[1 .. n -> Rows] : n \in 0 .. MaxRows}

InitGroup ==
    /\ NoSegmentation
    /\ \E t \in Templates, g \in Tables :
          /\ args = [call |-> "get_grouped_psf_model", template_psf_model |-> t,
                     star_group |-> g]
          /\ model = [heap |-> (0 :> t), template |-> 0, group_psf |-> <<>>]
    /\ result = NoResult
    /\ exc = NoExc
    /\ pc = "start"

\* group_psf = get_grouped_psf_model(template, star_group)
GetGroupedPsfModel ==
    /\ pc = "start"
    /\ LET returned(r) == model' = [model EXCEPT !.heap = r.heap, !.group_psf = r.group_psf]
       IN returned(get_grouped_psf_model(model.heap, model.template, args.star_group))
    /\ pc' = "grouped"
    /\ UNCHANGED <<segmentation, args, result, exc>>

\* a parameter of the i-th model of the sum is set to 7
SetParameter ==
    /\ pc = "grouped"
    /\ \E i \in 1 .. Len(model.group_psf), p \in {"flux", "x_0", "y_0"} :
          /\ model' = [model EXCEPT !.heap[model.group_psf[i]].values[p] = R(7)]
          /\ result' = <<i, p>>
    /\ pc' = "set"
    /\ UNCHANGED <<segmentation, args, exc>>

NextGroup == GetGroupedPsfModel \/ SetParameter

SpecGroup == InitGroup /\ [][NextGroup]_vars

\* the value the parameter p of the i-th model of the sum is to have: the
\* value of row i, the template's for the other parameters, 7 once it was set
Expected(i, p) ==
    IF pc = "set" /\ result = <<i, p>> THEN R(7)
    ELSE IF p = "flux" THEN args.star_group[i].flux_0
    ELSE IF p = "x_0" THEN args.star_group[i].x_0
    ELSE IF p = "y_0" THEN args.star_group[i].y_0
    ELSE args.template_psf_model.values[p]

\* C20: the model returned for a table of N >= 1 rows is the sum of N
\* separate copies of the template, the i-th with the flux_0, x_0 and y_0 of
\* row i; setting a parameter of one copy changes neither the template nor
\* another copy
ClaimC20 ==
    (pc \in {"grouped", "set"} /\ Len(args.star_group) >= 1) =>
        /\ Len(model.group_psf) = Len(args.star_group)
        /\ \A i \in 1 .. Len(model.group_psf) :
              /\ model.group_psf[i] # model.template
              /\ \A j \in 1 .. Len(model.group_psf) :
                    i # j => model.group_psf[i] # model.group_psf[j]
              /\ model.heap[model.group_psf[i]].class = args.template_psf_model.class
              /\ \A p \in DOMAIN args.template_psf_model.values :
                    model.heap[model.group_psf[i]].values[p] = Expected(i, p)
        /\ model.heap[model.template] = args.template_psf_model

\* the flux of the first of two copies was set, and the second row differs
\* from the first and from the template
WitnessC20 ==
    /\ pc = "set"
    /\ Len(model.group_psf) = 2
    /\ result = <<1, "flux">>
    /\ args.star_group[1] # args.star_group[2]
    /\ model.heap[model.group_psf[1]].values.flux = R(7)
    /\ model.heap[model.group_psf[2]].values.flux # R(7)

-----------------------------------------------------------------------------
(* PRFAdapter (psf/models.py) *)

\* setattr(obj, name, value) on a model, name an optional string:
\* the exception raised if any, the model afterwards
setattr(obj, name, value) ==
    IF ~name.given
    THEN [exc |-> TypeError("attribute name must be string"), obj |-> obj]
    ELSE [exc |-> NoExc, obj |-> [obj EXCEPT !.values[name.v] = value]]

\* the integral itself is stored as the scale factor, not its reciprocal
PRFAdapter_integral_stored(psfmodel, renormalize_psf, xname, yname, fluxname) ==
    LET made(factor) ==
            [exc |-> NoExc,
             obj |-> [class |-> "PRFAdapter", psfmodel |-> psfmodel,
                      _psf_scale_factor |-> factor,
                      xname |-> xname, yname |-> yname, fluxname |-> fluxname,
                      flux |-> R(1), x_0 |-> R(0), y_0 |-> R(0)]]
    IN IF ~renormalize_psf THEN made(R(1))
       ELSE IF psfmodel.integral = R(0)
       THEN [exc |-> [type |-> "ZeroDivisionError", msg |-> "float division by zero"],
             obj |-> NoModel]
       ELSE made(psfmodel.integral)

\* PRFAdapter(psfmodel, renormalize_psf=renormalize_psf, xname=xname, yname=yname,
\*            fluxname=fluxname): the exception raised if any, the adapter made.
\* dblquad(self.psfmodel, -inf, inf, ..)[0] is the integral of the model.
PRFAdapter(psfmodel, renormalize_psf, xname, yname, fluxname) ==
    LET made(factor) ==
            [exc |-> NoExc,
             obj |-> [class |-> "PRFAdapter", psfmodel |-> psfmodel,
                      _psf_scale_factor |-> factor,
                      xname |-> xname, yname |-> yname, fluxname |-> fluxname,
                      flux |-> R(1), x_0 |-> R(0), y_0 |-> R(0)]]
    IN IF ~renormalize_psf THEN made(R(1))
       ELSE IF psfmodel.integral = R(0)
       THEN [exc |-> [type |-> "ZeroDivisionError", msg |-> "float division by zero"],
             obj |-> NoModel]
       ELSE made(RDiv(R(1), psfmodel.integral))

\* _integrated_psfmodel(dx, dy) for one element of dx, dy: the integral of
\* self.psfmodel, with the parameter values it has now, over the pixel box
\* around (dx, dy); kept as the term that names it
_integrated_psfmodel(m, dx, dy) == [of |-> m.psfmodel.values, dx |-> dx, dy |-> dy]

\* the product of a number and an integral
Times(a, integral) == [scale |-> a, integral |-> integral]

\* PRFAdapter.evaluate(x, y, flux, x_0, y_0) for one element of x, y: the
\* exception raised if any, the adapter afterwards, the value returned
PRFAdapter_evaluate(m, x, y, flux, x_0, y_0) ==
    LET dx == IF ~m.xname.given THEN RSub(x, x_0) ELSE x
        dy == IF ~m.xname.given THEN RSub(y, y_0) ELSE y
        failed(e, psf) == [exc |-> e, obj |-> [m EXCEPT !.psfmodel = psf], out |-> None]
        fluxset(s) ==
            IF Raised(s.exc) THEN failed(s.exc, s.obj)
            ELSE [exc |-> NoExc, obj |-> [m EXCEPT !.psfmodel = s.obj],
                  out |-> Some(Times(R(1), _integrated_psfmodel([m EXCEPT !.psfmodel = s.obj],
                                                                dx, dy)))]
        scaled(psf) ==
            IF ~m.fluxname.given
            THEN [exc |-> NoExc, obj |-> [m EXCEPT !.psfmodel = psf],
                  out |-> Some(Times(RMul(flux, m._psf_scale_factor),
                                     _integrated_psfmodel([m EXCEPT !.psfmodel = psf], dx, dy)))]
            ELSE fluxset(setattr(psf, m.yname, RMul(flux, m._psf_scale_factor)))
        yset(s) == IF Raised(s.exc) THEN failed(s.exc, s.obj) ELSE scaled(s.obj)
        xset(s) ==
            IF Raised(s.exc) THEN failed(s.exc, s.obj)
            ELSE IF ~m.xname.given THEN scaled(s.obj)
            ELSE yset(setattr(s.obj, m.yname, y_0))
    IN IF ~m.xname.given THEN xset([exc |-> NoExc, obj |-> m.psfmodel])
       ELSE xset(setattr(m.psfmodel, m.xname, x_0))

-----------------------------------------------------------------------------
(* SpecAdapter: a PRFAdapter is made around a Gaussian2D; the caller assigns  *)
(* to the adapter's flux, x_0 and y_0 and evaluates the adapter, in any order.*)

\* astropy's Gaussian2D with its default parameter values and the integral
\* dblquad finds for it
Gaussian2D(integral) ==
    [class |-> "Gaussian2D", name |-> "",
     param_names |-> <<"amplitude", "x_mean", "y_mean", "x_stddev">>, fixed |-> {},
     values |-> [amplitude |-> R(1), x_mean |-> R(0), y_mean |-> R(0), x_stddev |-> R(1)],
     integral |-> R(integral)]

OptionalName(p) == {None, Some(p)}

InitAdapter ==
    /\ NoSegmentation
    /\ args \in {[call |-> "PRFAdapter", psfmodel |-> Gaussian2D(t), renormalize_psf |-> rn,
                  xname |-> xn, yname |-> yn, fluxname |-> fn] :
                    t \in 0 .. MaxIntegral, rn \in BOOLEAN, xn \in OptionalName("x_mean"),
                    yn \in OptionalName("y_mean"), fn \in OptionalName("amplitude")}
    /\ model = NoModel
    /\ result = NoResult
    /\ exc = NoExc
    /\ pc = "start"

\* model = PRFAdapter(psfmodel, renormalize_psf=.., xname=.., yname=.., fluxname=..)
NewAdapter ==
    /\ pc = "start"
    /\ LET returned(r) == model' = r.obj /\ exc' = r.exc /\ pc' = IF Raised(r.exc) THEN "failed" ELSE "made"
       IN returned(PRFAdapter(args.psfmodel, args.renormalize_psf, args.xname, args.yname,
                              args.fluxname))
    /\ UNCHANGED <<segmentation, args, result>>

\* model.flux = 3, model.x_0 = 4 or model.y_0 = 5, or back to the defaults
SetAdapterParameter ==
    /\ pc \in {"made", "evaluated"}
    /\ \E p \in {<<"flux", R(1)>>, <<"flux", R(3)>>, <<"x_0", R(0)>>, <<"x_0", R(4)>>,
                 <<"y_0", R(0)>>, <<"y_0", R(5)>>} :
          /\ model[p[1]] # p[2]
          /\ model' = [model EXCEPT ![p[1]] = p[2]]
    /\ pc' = "made"
    /\ exc' = NoExc
    /\ result' = NoResult
    /\ UNCHANGED <<segmentation, args>>

\* model(x, y), which is model.evaluate(x, y, model.flux, model.x_0, model.y_0)
EvaluateAdapter ==
    /\ pc \in {"made", "evaluated"}
    /\ \E q \in {<<R(0), R(0)>>, <<R(1), R(2)>>} :
          LET returned(r) ==
                  /\ model' = r.obj
                  /\ exc' = r.exc
                  /\ result' = [x |-> q[1], y |-> q[2], out |-> r.out, before |-> model]
          IN returned(PRFAdapter_evaluate(model, q[1], q[2], model.flux, model.x_0, model.y_0))
    /\ pc' = "evaluated"
    /\ UNCHANGED <<segmentation, args>>

NextAdapter == NewAdapter \/ SetAdapterParameter \/ EvaluateAdapter

SpecAdapter == InitAdapter /\ [][NextAdapter]_vars

\* C21 as stated: each axis goes by its own name. With xname given the
\* wrapped model's xname parameter holds x_0 and x is passed unshifted,
\* otherwise x - x_0 is passed; the same for y with yname; no exception
ClaimC21Original ==
    pc = "evaluated" =>
        /\ ~Raised(exc)
        /\ result.out.given
        /\ IF model.xname.given
           THEN /\ result.out.v.integral.of[model.xname.v] = model.x_0
                /\ result.out.v.integral.dx = result.x
           ELSE result.out.v.integral.dx = RSub(result.x, model.x_0)
        /\ IF model.yname.given
           THEN /\ result.out.v.integral.of[model.yname.v] = model.y_0
                /\ result.out.v.integral.dy = result.y
           ELSE result.out.v.integral.dy = RSub(result.y, model.y_0)

\* the names given for the axes
AxisNames == {n.v : n \in {a \in {model.xname, model.yname} : a.given}}

\* C22 as stated: with fluxname given the wrapped model's fluxname parameter
\* holds flux times the scale factor, the flux is written to no other
\* parameter, and the integral is returned unscaled; with fluxname None no
\* parameter but those of the axes is written and the integral is returned
\* times flux times the scale factor
ClaimC22Original ==
    pc = "evaluated" =>
        /\ result.out.given
        /\ IF model.fluxname.given
           THEN /\ result.out.v.integral.of[model.fluxname.v]
                      = RMul(model.flux, model._psf_scale_factor)
                /\ \A p \in DOMAIN model.psfmodel.values \ {model.fluxname.v} :
                      \/ result.out.v.integral.of[p] = result.before.psfmodel.values[p]
                      \/ /\ p \in AxisNames
                         /\ result.out.v.integral.of[p] \in {model.x_0, model.y_0}
                /\ result.out.v.scale = R(1)
           ELSE /\ \A p \in DOMAIN model.psfmodel.values \ AxisNames :
                      result.out.v.integral.of[p] = result.before.psfmodel.values[p]
                /\ result.out.v.scale = RMul(model.flux, model._psf_scale_factor)

\* C27: the scale factor of an adapter is the one its construction stored, the
\* reciprocal of the wrapped model's integral with renormalize_psf and 1
\* without, after every evaluation and every assignment to flux, x_0 or y_0
ClaimC27 ==
    pc \in {"made", "evaluated"} =>
        model._psf_scale_factor = IF args.renormalize_psf
                                  THEN RDiv(R(1), args.psfmodel.integral)
                                  ELSE R(1)

\* a renormalized adapter around a model of integral 2 was evaluated with its
\* flux set to 3, and the evaluation wrote to the wrapped model
WitnessC27 ==
    /\ pc = "evaluated"
    /\ ~Raised(exc)
    /\ args.renormalize_psf
    /\ args.psfmodel.integral = R(2)
    /\ model.flux = R(3)
    /\ model.psfmodel.values # args.psfmodel.values
    /\ result.before.psfmodel.values # args.psfmodel.values

-----------------------------------------------------------------------------
(* The caller's array after DiscretePRF(...), checked under SpecPRF.          *)

\* C30 as stated: after the construction, with normalize on or off, the
\* caller's prf_array holds the values it held when it was passed
ClaimC30Original ==
    pc = "built" => result.prf_array = args.prf_array

-----------------------------------------------------------------------------
(* IntegratedGaussianPRF (psf/models.py) *)

\* scipy.special.erf(z / sqrt(2)) in sixty-fourths, at z = 0, 1/2, 1, .. 3;
\* between two entries the value is interpolated, from 3 on it is 1
ErfTable == <<0, 25, 44, 55, 61, 63, 64>>
Saturation == 3

\* self._erf(z / np.sqrt(2)): odd, increasing, 1 from Saturation on
erf_sqrt2(z) ==
    LET at(k, a) ==
            IF k >= 2 * Saturation THEN R(1)
            ELSE RDiv(RAdd(R(ErfTable[k + 1]),
                           RMul(RSub(RMul(R(2), a), R(k)),
                                R(ErfTable[k + 2] - ErfTable[k + 1]))),
                      R(64))
        positive(a) == at(Floor(RMul(R(2), a)), a)
    IN IF z[1] < 0 THEN RNeg(positive(RAbs(z))) ELSE positive(z)

\* the flux is halved, not quartered
IntegratedGaussianPRF_evaluate_halved(x, y, flux, x_0, y_0, sigma) ==
    RMul(RDiv(flux, R(2)),
         RMul(RSub(erf_sqrt2(RDiv(RAdd(RSub(x, x_0), Half), sigma)),
                   erf_sqrt2(RDiv(RSub(RSub(x, x_0), Half), sigma))),
              RSub(erf_sqrt2(RDiv(RAdd(RSub(y, y_0), Half), sigma)),
                   erf_sqrt2(RDiv(RSub(RSub(y, y_0), Half), sigma)))))

\* IntegratedGaussianPRF.evaluate(x, y, flux, x_0, y_0, sigma) for one pixel
IntegratedGaussianPRF_evaluate(x, y, flux, x_0, y_0, sigma) ==
    RMul(RDiv(flux, R(4)),
         RMul(RSub(erf_sqrt2(RDiv(RAdd(RSub(x, x_0), Half), sigma)),
                   erf_sqrt2(RDiv(RSub(RSub(x, x_0), Half), sigma))),
              RSub(erf_sqrt2(RDiv(RAdd(RSub(y, y_0), Half), sigma)),
                   erf_sqrt2(RDiv(RSub(RSub(y, y_0), Half), sigma)))))

\* IntegratedGaussianPRF(sigma=sigma, x_0=x_0, y_0=y_0, flux=flux)
IntegratedGaussianPRF(sigma, x_0, y_0, flux) ==
    [class |-> "IntegratedGaussianPRF", flux |-> flux, x_0 |-> x_0, y_0 |-> y_0,
     sigma |-> sigma, fixed |-> {"sigma"}]

-----------------------------------------------------------------------------
(* SpecGauss: an IntegratedGaussianPRF is made and evaluated on every pixel   *)
(* of the window -w .. w by -w .. w.                                          *)

\* the half width of the window is at most MaxWindow
MaxWindow == 4

Sigmas == {Half, R(1), <<3, 4>>}
Centers == {R(0), Half, <<-1, 3>>, R(-1)}

InitGauss ==
    /\ NoSegmentation
    /\ args \in {[call |-> "IntegratedGaussianPRF", sigma |-> s, x_0 |-> x0, y_0 |-> y0,
                  flux |-> R(f), window |-> w] :
                    s \in Sigmas, x0 \in Centers, y0 \in Centers, f \in 1 .. MaxVal,
                    w \in 0 .. MaxWindow}
    /\ model = NoModel
    /\ result = NoResult
    /\ exc = NoExc
    /\ pc = "start"

\* model = IntegratedGaussianPRF(sigma=sigma, x_0=x_0, y_0=y_0, flux=flux)
NewGauss ==
    /\ pc = "start"
    /\ model' = IntegratedGaussianPRF(args.sigma, args.x_0, args.y_0, args.flux)
    /\ pc' = "made"
    /\ UNCHANGED <<segmentation, args, result, exc>>

\* y, x = np.mgrid[-w:w+1, -w:w+1]; result = model(x, y)
EvaluateGauss ==
    /\ pc = "made"
    /\ result' = Arr(2 * args.window + 1, 2 * args.window + 1,
                     [ix \in Idx(2 * args.window + 1, 2 * args.window + 1) |->
                         IntegratedGaussianPRF_evaluate(R(ix[2] - args.window),
                                                        R(ix[1] - args.window),
                                                        model.flux, model.x_0, model.y_0,
                                                        model.sigma)])
    /\ pc' = "evaluated"
    /\ UNCHANGED <<segmentation, args, model, exc>>

NextGauss == NewGauss \/ EvaluateGauss

SpecGauss == InitGauss /\ [][NextGauss]_vars

\* the sum of the values on the window: the sum of the sums of its rows
WindowSum(a) ==
    SumSeq([j \in 1 .. a.ny |-> SumSeq([i \in 1 .. a.nx |-> a.v[<<j - 1, i - 1>>]])])

\* the erf difference across the two edges of the window along one axis
AcrossWindow(c) ==
    RSub(erf_sqrt2(RDiv(RAdd(RSub(R(args.window), c), Half), model.sigma)),
         erf_sqrt2(RDiv(RSub(RSub(R(-args.window), c), Half), model.sigma)))

\* both edges of the window are Saturation sigmas or more from the centre c
EdgesFar(c) ==
    /\ RLe(RMul(R(Saturation), model.sigma), RAdd(RSub(R(args.window), c), Half))
    /\ RLe(RMul(R(Saturation), model.sigma), RAdd(RAdd(R(args.window), c), Half))

\* C23: the sum of the model over the pixels of a symmetric window is flux / 4
\* times the product of the erf differences across the window's edges in x
\* and in y, and it is flux once the edges are far enough from the centre
ClaimC23 ==
    pc = "evaluated" =>
        /\ WindowSum(result) = RMul(RDiv(model.flux, R(4)),
                                RMul(AcrossWindow(model.x_0), AcrossWindow(model.y_0)))
        /\ (EdgesFar(model.x_0) /\ EdgesFar(model.y_0)) => WindowSum(result) = model.flux

\* a window of 49 pixels or more around an off-centre model whose sum is
\* less than the flux, and a window whose sum is the flux
WitnessC23 ==
    /\ pc = "evaluated"
    /\ args.window >= 3
    /\ model.x_0 = <<-1, 3>>
    /\ model.flux = R(2)
    /\ EdgesFar(model.x_0) /\ EdgesFar(model.y_0)
    /\ WindowSum(result) = model.flux

WitnessC23Partial ==
    /\ pc = "evaluated"
    /\ args.window = 1
    /\ model.sigma = R(1)
    /\ ~EdgesFar(model.x_0)
    /\ RLt(WindowSum(result), model.flux)
    /\ RLt(R(0), WindowSum(result))

-----------------------------------------------------------------------------
(* lazyproperty: the properties of a SegmentProperties as the object keeps    *)
(* them, read while the caller goes on writing to its arrays.                 *)

\* What an object keeps for a lazyproperty once it was computed: a value of
\* its own, or (data_cutout) a view of the caller's data array
Kept(v) == [kind |-> "value", v |-> v]
View == [kind |-> "view", v |-> NoArr]

\* a getter returned v for `name`: it is put into the object's __dict__ (kept)
\* and the computation is noted (computed)
Put(s, name, v) ==
    [kept |-> [n \in DOMAIN s.kept \cup {name} |-> IF n = name THEN v ELSE s.kept[n]],
     computed |-> Append(s.computed, name)]

\* the body of the getter _local_mask, self._in_segment being kept in s
_local_mask_getter(o, s) ==
    LET not(ins) == Arr(ins.ny, ins.nx, [ix \in Indices(ins) |-> ~ins.v[ix]])
        or(nins, mc) == Arr(nins.ny, nins.nx, [ix \in Indices(nins) |-> nins.v[ix] \/ mc.v[ix]])
    IN Put(s, "_local_mask",
           Kept(IF o._mask.kind = "none"
                THEN not(s.kept._in_segment.v)
                ELSE or(not(s.kept._in_segment.v), Cut(Mask(o), o._slice))))

\* the body of the getter values, self.data_cutout and self._local_mask being kept
values_getter(o, s) ==
    LET unmasked(dc, lm) == Selected(dc, LAMBDA ix : ~lm.v[ix])
    IN Put(s, "values", Kept(unmasked(data_cutout(o), s.kept._local_mask.v)))

\* the body of the getter area, self.values being kept
area_getter(o, s) == Put(s, "area", Kept(Len(s.kept.values.v)))

\* the body of the getter segment_sum, self._local_mask being kept
segment_sum_getter(o, s) ==
    LET unmasked(ic, lm) == Selected(ic, LAMBDA ix : ~lm.v[ix])
        sum(vs) == [masked |-> vs = <<>>, val |-> SumSeq(vs)]
    IN Put(s, "segment_sum",
           Kept(sum(unmasked(Cut(Image(o), o._slice), s.kept._local_mask.v))))

RECURSIVE lazyproperty_recomputing(_, _, _)
\* the getter runs at every read, whether or not a value is kept
lazyproperty_recomputing(o, s, name) ==
    CASE name = "_in_segment" -> Put(s, name, Kept(_in_segment(o)))
      [] name = "data_cutout" -> Put(s, name, View)
      [] name = "_local_mask" ->
            _local_mask_getter(o, lazyproperty_recomputing(o, s, "_in_segment"))
      [] name = "values" ->
            values_getter(o, lazyproperty_recomputing(
                                 o, lazyproperty_recomputing(o, s, "data_cutout"),
                                 "_local_mask"))
      [] name = "area" -> area_getter(o, lazyproperty_recomputing(o, s, "values"))
      [] name = "segment_sum" ->
            segment_sum_getter(o, lazyproperty_recomputing(o, s, "_local_mask"))

RECURSIVE lazyproperty(_, _, _)
\* getattr(o, name) for a lazyproperty: what the object keeps afterwards and
\* the getters that ran, s being what it kept before. A kept property is
\* returned as it is; otherwise its getter runs, reading the lazyproperties
\* it uses the same way, and its result is kept.
lazyproperty(o, s, name) ==
    IF name \in DOMAIN s.kept THEN s
    ELSE CASE name = "_in_segment" -> Put(s, name, Kept(_in_segment(o)))
           [] name = "data_cutout" -> Put(s, name, View)
           [] name = "_local_mask" ->
                 _local_mask_getter(o, lazyproperty(o, s, "_in_segment"))
           [] name = "values" ->
                 values_getter(o, lazyproperty(o, lazyproperty(o, s, "data_cutout"),
                                               "_local_mask"))
           [] name = "area" -> area_getter(o, lazyproperty(o, s, "values"))
           [] name = "segment_sum" ->
                 segment_sum_getter(o, lazyproperty(o, s, "_local_mask"))

\* what the caller sees in the object a read returned: a kept value, or
\* through a view the caller's data as it is now
Seen(o, k) == IF k.kind = "view" THEN data_cutout(o) ELSE k.v

-----------------------------------------------------------------------------
(* SpecCache: a region is built on the caller's arrays; the caller reads      *)
(* properties of it and writes to pixels of its data and label map, in any    *)
(* order, one write at most between two reads. result is the list of reads.  *)

\* the caller makes at most MaxReads reads
MaxReads == 3

CacheShape == <<1, 2>>

InitCache ==
    /\ data \in Arrays(CacheShape, Values)
    /\ segment_image \in {Arr(1, 2, [ix \in Idx(1, 2) |-> 1]),
                          Arr(1, 2, [ix \in Idx(1, 2) |-> IF ix[2] = 0 THEN 1 ELSE 2])}
    /\ mask \in {NoArr, Arr(1, 2, [ix \in Idx(1, 2) |-> ix[2] = 1])}
    /\ error = NoArr
    /\ gain = NoneArg
    /\ mask_method = "exclude"
    /\ background = NoneArg
    /\ label = 0
    /\ label_slice = NoLabelSlice
    /\ labels = NoLabels
    /\ columns = NoColumns
    /\ Fresh

\* obj = SegmentProperties(data, segment_image, 1, mask=mask)
NewRegion ==
    /\ pc = "start"
    /\ Construct(1, NoLabelSlice, "exclude")
    /\ pc' = "built"

ReadableNames == {"data_cutout", "values", "area", "segment_sum"}

\* getattr(obj, name)
ReadProperty ==
    /\ pc \in {"built", "written"}
    /\ Len(result) < MaxReads
    /\ \E i \in 1 .. Len(objs), name \in ReadableNames :
          LET read(r) ==
                  /\ cache' = [cache EXCEPT ![i] = r.kept]
                  /\ result' = Append(result, [obj |-> i, name |-> name,
                                               computed |-> r.computed,
                                               value |-> Seen(objs[i], r.kept[name])])
          IN read(lazyproperty(objs[i], [kept |-> cache[i], computed |-> <<>>], name))
    /\ pc' = "built"
    /\ UNCHANGED <<inputs, objs, exc, trace, table, args, model>>

\* between two reads, nothing written since the last read
Between == pc = "built" /\ 1 <= Len(result) /\ Len(result) < MaxReads

\* data[ix] = v
WriteData ==
    /\ Between
    /\ \E ix \in Indices(data), v \in Values :
          /\ data.v[ix] # v
          /\ data' = [data EXCEPT !.v[ix] = v]
    /\ pc' = "written"
    /\ UNCHANGED <<segment_image, error, gain, mask, mask_method, background, label,
                   label_slice, labels, columns, objs, cache, exc, trace, table,
                   psfvars>>

\* segment_image[ix] = l
WriteSegment ==
    /\ Between
    /\ \E ix \in Indices(segment_image), l \in 1 .. 2 :
          /\ segment_image.v[ix] # l
          /\ segment_image' = [segment_image EXCEPT !.v[ix] = l]
    /\ pc' = "written"
    /\ UNCHANGED <<data, error, gain, mask, mask_method, background, label,
                   label_slice, labels, columns, objs, cache, exc, trace, table,
                   psfvars>>

NextCache == NewRegion \/ ReadProperty \/ WriteData \/ WriteSegment

SpecCache == InitCache /\ [][NextCache]_vars

\* the read b repeats the earlier read a: same object, same property
Repeats(a, b) == a < b /\ result[a].obj = result[b].obj /\ result[a].name = result[b].name

\* C24 as stated: no getter runs twice for an object, and a repeated read
\* returns what the first read returned, whatever the caller wrote in between
ClaimC24Original ==
    \A b \in 1 .. Len(result) :
        /\ \A k \in 1 .. Len(result[b].computed) :
              /\ \A a \in 1 .. b - 1 :
                    result[a].obj = result[b].obj =>
                        \A j \in 1 .. Len(result[a].computed) :
                            result[a].computed[j] # result[b].computed[k]
              /\ \A j \in 1 .. k - 1 : result[b].computed[j] # result[b].computed[k]
        /\ \A a \in 1 .. b - 1 : Repeats(a, b) => result[b].value = result[a].value

\* the getters that ran in the read b ran in no earlier read of the object,
\* and none ran twice in b
RanOnce(log, b) ==
    \A k \in 1 .. Len(log[b].computed) :
        /\ \A a \in 1 .. b - 1 :
              log[a].obj = log[b].obj =>
                  \A j \in 1 .. Len(log[a].computed) :
                      log[a].computed[j] # log[b].computed[k]
        /\ \A j \in 1 .. k - 1 : log[b].computed[j] # log[b].computed[k]

\* C24 (amended): at every read the getters that run have not run before for
\* the object; a repeated read of values, area or segment_sum returns what the
\* first read returned, whatever the caller wrote to its arrays in between;
\* data_cutout is a view, and every read of it shows the caller's data as it
\* is at that read
ClaimC24 ==
    [][Len(result') > Len(result) =>
          /\ RanOnce(result', Len(result'))
          /\ IF result'[Len(result')].name = "data_cutout"
             THEN result'[Len(result')].value = data_cutout(objs[result'[Len(result')].obj])
             ELSE \A a \in 1 .. Len(result) :
                     (/\ result[a].obj = result'[Len(result')].obj
                      /\ result[a].name = result'[Len(result')].name)
                         => result'[Len(result')].value = result[a].value]_vars

\* values was read twice and returned the same both times, while the values
\* of the region are different by now
WitnessC24 ==
    \E a, b \in 1 .. Len(result) :
        /\ Repeats(a, b)
        /\ result[b].name = "values"
        /\ result[b].value = result[a].value
        /\ values(objs[result[b].obj]) # result[b].value

\* data_cutout was read twice and the second read showed other contents
WitnessC24View ==
    \E a, b \in 1 .. Len(result) :
        /\ Repeats(a, b)
        /\ result[b].name = "data_cutout"
        /\ result[b].value # result[a].value

-----------------------------------------------------------------------------
(* SpecApply: the region of label 1 is built with a mask, with and without an *)
(* error array and a background, once per mask method, in either order.       *)

\* an error array that differs from pixel to pixel
Errors(sh) == {NoArr, Ramp(sh)}

InitApply ==
    /\ \E sh \in Shapes :
          /\ data \in Arrays(sh, Values)
          /\ mask \in Arrays(sh, BOOLEAN)
          /\ segment_image = Arr(sh[1], sh[2], [ix \in Idx(sh[1], sh[2]) |-> 1])
          /\ background \in Backgrounds(sh)
          /\ error \in Errors(sh)
    /\ gain = NoneArg
    /\ mask_method = "exclude"
    /\ label = 1
    /\ label_slice = NoLabelSlice
    /\ labels = NoLabels
    /\ columns = NoColumns
    /\ Fresh

NextApply == BuildExclude \/ BuildInterpolate

SpecApply == InitApply /\ [][NextApply]_vars

\* the object the last construction returned
Last == objs[Len(objs)]

\* the background and the variance of a pixel before the mask is applied
BackgroundAt(ix) ==
    IF background.kind = "scalar" THEN background.s ELSE background.a.v[ix]
VarianceAt(ix) == RMul(error.v[ix], error.v[ix])

\* the mean of f over the unmasked pixels of the 3x3 neighbourhood of ix
NeighbourMean(ix, f(_)) ==
    LET nb == GoodNeighbours(ix)
    IN RDiv(RatSum(nb, [jx \in nb |-> f(jx)]), R(Cardinality(nb)))

\* every order the masked pixels can be processed in
Orders(S) ==
    {p \in [1 .. Cardinality(S) -> S] : \A a, b \in 1 .. Cardinality(S) : a # b => p[a] # p[b]}

\* the image before the mask is applied: f at every pixel
Before(f(_)) == Arr(data.ny, data.nx, [ix \in Indices(data) |-> f(ix)])

\* C25: in the object a construction with a mask returns, with 'interpolate'
\* every masked pixel of the prepared data, of the variance and of the
\* background (when there are any) holds the mean of the unmasked pixels of
\* its 3x3 neighbourhood within the image, the same whatever order the masked
\* pixels are processed in; with 'exclude' it holds 0 in all three; an
\* unmasked pixel keeps its value
ClaimC25 ==
    Len(objs) >= 1 =>
        /\ \A ix \in Indices(data) :
              /\ Image(Last).v[ix] =
                    IF ~mask.v[ix] THEN Subtracted(ix)
                    ELSE IF IsInterpolated(Last) THEN NeighbourMean(ix, Subtracted)
                    ELSE R(0)
              /\ Last._variance.kind # "none" =>
                    Last._variance.own.v[ix] =
                        IF ~mask.v[ix] THEN VarianceAt(ix)
                        ELSE IF IsInterpolated(Last) THEN NeighbourMean(ix, VarianceAt)
                        ELSE R(0)
              /\ Last._background.kind # "none" =>
                    Background(Last).v[ix] =
                        IF ~mask.v[ix] THEN BackgroundAt(ix)
                        ELSE IF IsInterpolated(Last) THEN NeighbourMean(ix, BackgroundAt)
                        ELSE R(0)
        /\ (Last._variance.kind # "none") = (error # NoArr)
        /\ (Last._background.kind # "none") = (background.kind # "none")
        /\ IsInterpolated(Last) =>
              \A p \in Orders(MaskedPixels) :
                  Interpolated(Before(Subtracted), mask, p) = Image(Last)

\* an interpolated object with variance and a 2D background, two masked
\* pixels next to each other, one of them with unmasked neighbours whose
\* values differ
WitnessC25 ==
    /\ Len(objs) >= 1
    /\ IsInterpolated(Last)
    /\ Last._variance.kind # "none"
    /\ background.kind = "array"
    /\ mask.v[<<0, 0>>] /\ mask.v[<<0, 1>>]
    /\ Cardinality(MaskedPixels) = 2
    /\ Shape(data) = <<2, 2>>
    /\ data.v[<<1, 0>>] # data.v[<<1, 1>>]
    /\ Image(Last).v[<<0, 0>>] # R(0)
    /\ Image(Last).v[<<0, 0>>] # data.v[<<0, 0>>]

-----------------------------------------------------------------------------
(* coords, values, area and segment_sum of one region, read from objects     *)
(* built with each mask method                                               *)

\* np.ma.masked_array(np.array(self.data_cutout), mask=self._local_mask)
data_cutout_ma(o) == [data |-> data_cutout(o), mask |-> _local_mask(o)]

\* np.nonzero of a masked array lists the unmasked elements that are not zero,
\* in row-major order; the slice start is added to each index
coords(o) ==
    LET nonzero(ma) ==
            LET all == RowMajor(ma.data.ny, ma.data.nx)
                F[k \in 0 .. Len(all)] ==
                    IF k = 0 THEN <<>>
                    ELSE IF ~ma.mask.v[all[k]] /\ RSign(ma.data.v[all[k]]) # 0
                         THEN Append(F[k - 1], <<all[k][1] + o._slice.y0,
                                                 all[k][2] + o._slice.x0>>)
                         ELSE F[k - 1]
            IN F[Len(all)]
    IN nonzero(data_cutout_ma(o))

InitRegion ==
    /\ \E sh \in Shapes :
          /\ data \in Arrays(sh, Values)
          /\ mask \in Arrays(sh, BOOLEAN)
          /\ segment_image \in ColumnSegms(sh)
    /\ background = NoneArg
    /\ error = NoArr
    /\ gain = NoneArg
    /\ mask_method = "exclude"
    /\ label = 1
    /\ label_slice = NoLabelSlice
    /\ labels = NoLabels
    /\ columns = NoColumns
    /\ Fresh

\* the caller reads coords, values, area and segment_sum of the objects, first
\* to last
ReadRegion ==
    /\ pc = "built"
    /\ Len(result) < Len(objs)
    /\ LET read(o) ==
               result' = Append(result, [coords |-> coords(o), values |-> values(o),
                                         area |-> area(o),
                                         segment_sum |-> segment_sum(o)])
       IN read(objs[Len(result) + 1])
    /\ UNCHANGED <<inputs, objs, cache, exc, trace, table, pc, args, model>>

NextRegion == BuildExclude \/ BuildInterpolate \/ ReadRegion

SpecRegion == InitRegion /\ [][NextRegion]_vars

\* the pixels of the label that the object's mask does not exclude
Included(o) == {ix \in PixelsOf(o.label) : IsInterpolated(o) \/ ~mask.v[ix]}

\* C28: coords lists exactly the pixels that carry the label and are not
\* 'excluded'-masked, each once, so there are as many coordinate pairs as
\* area says, pixels whose data value is 0 included
ClaimC28Original ==
    \A i \in 1 .. Len(result) :
        /\ {result[i].coords[k] : k \in 1 .. Len(result[i].coords)} = Included(objs[i])
        /\ Len(result[i].coords) = result[i].area
        /\ result[i].area = Len(result[i].values)

\* C29: with no background, segment_sum is the sum of values under both mask
\* methods (a sum over no pixels counting as 0)
ClaimC29Original ==
    \A i \in 1 .. Len(result) :
        background.kind = "none" => result[i].segment_sum.val = SumSeq(result[i].values)

-----------------------------------------------------------------------------
(* SpecAcross: the regions of two labels of one image are constructed from    *)
(* the same arrays, in either order, and read in between and afterwards       *)

\* label 1 on the first column, label 2 on the others
TwoRegions(sh) == Arr(sh[1], sh[2], [ix \in Idx(sh[1], sh[2]) |-> IF ix[2] = 0 THEN 1 ELSE 2])

InitAcross ==
    /\ \E sh \in Shapes :
          /\ data \in Arrays(sh, Values)
          /\ mask \in Arrays(sh, BOOLEAN)
          /\ segment_image = TwoRegions(sh)
          /\ background \in Backgrounds(sh)
    /\ error = NoArr
    /\ gain = NoneArg
    /\ mask_method \in {"exclude", "interpolate"}
    /\ label = 1
    /\ label_slice = NoLabelSlice
    /\ labels = NoLabels
    /\ columns = NoColumns
    /\ objs = <<>>
    /\ cache = <<>>
    /\ exc = NoExc
    /\ trace = <<>>
    /\ table = NoTable
    /\ pc = "start"
    /\ args = [background |-> background]
    /\ model = NoModel
    /\ result = NoResult

\* SegmentProperties(data, segment_image, lab, mask=mask, mask_method=mask_method,
\*                   background=background) for a label not constructed yet
ConstructRegion ==
    /\ pc = "start"
    /\ \E lab \in {1, 2} :
          /\ \A i \in 1 .. Len(objs) : objs[i].label # lab
          /\ Construct(lab, NoLabelSlice, mask_method)
    /\ pc' = IF Len(objs) = 1 THEN "built" ELSE "start"

\* the caller reads segment_sum and area of an object
ReadAcross == \E i \in 1 .. Len(objs) : Get(i, <<"segment_sum", "area">>)

NextAcross == ConstructRegion \/ ReadAcross

SpecAcross == InitAcross /\ [][NextAcross]_vars

\* the construction of the region of label lab alone, from the arrays as the
\* caller made them
Alone(lab) ==
    SegmentProperties(data, segment_image, lab, NoLabelSlice, error, gain, mask,
                      mask_method, args.background)

\* the objects and the values read are those of the constructions alone
SameValues ==
    \A i \in 1 .. Len(objs) :
        LET same(o, r) ==
                /\ o = r.obj
                /\ o._background.kind = "input" => Background(o) = r.caller_bkg.a
                /\ cache[i] # NoCache =>
                      /\ cache[i].segment_sum = segment_sum(r.obj)
                      /\ cache[i].area = area(r.obj)
        IN same(objs[i], Alone(objs[i].label))

\* no step writes an array that a construction reads
NoSharedWrite ==
    /\ data' = data
    /\ segment_image' = segment_image
    /\ error' = error
    /\ mask' = mask
    /\ background' = background

\* C26: the property values of a region are those of its construction alone,
\* whatever was constructed or read before, and no construction writes to
\* state that the construction of another region reads
ClaimC26Original == []SameValues /\ [][NoSharedWrite]_vars
====
